---- MODULE Spec2Model ----
(***************************************************************************)
(* A model of CDIPpy's multi-source time-series engine: the single-file    *)
(* reader (cdipnc.CDIPnc.get_request and its quality mask), the merge      *)
(* paths of stndata.StnData.get_series, the aggregation and deduplication  *)
(* of record sets, and the spectral band redistribution of                 *)
(* spectra.Spectrum.redistribute_sp.                                       *)
(*                                                                         *)
(* A record set (a python dict of numpy arrays) is a function from         *)
(* variable names to sequences; an exception raised by the code is the     *)
(* outcome [status |-> "error"].  Python indices are kept 0-based where    *)
(* the code computes with them (bisect, slices); At(a, i) reads a[i].      *)
(***************************************************************************)
EXTENDS Integers, Sequences, FiniteSets, TLC

VARIABLES
    world,    \* the files of the station, or the input of a pure function
    req,      \* the arguments of the last call
    result,   \* what the last call returned
    probes,   \* the sources the last call tried to open, in order
    pc        \* the last operation

vars == <<world, req, result, probes, pc>>

----------------------------------------------------------------------------
(* Bounds of the model *)

\* timestamps of stored records are 1..MaxTime; request windows use 0..MaxTime+1
MaxTime == 3
\* longest time array handed to remove_duplicates as a direct input
MaxLen == 4
MaxRun == 2
MaxRows == 1

----------------------------------------------------------------------------
(* Python helpers *)

EmptyDict == [k \in {} |-> <<>>]

At(a, i) == a[i + 1]

\* a[s:e] for 0 <= s and e <= len(a)
Slice(a, s, e) == IF e <= s THEN <<>> ELSE SubSeq(a, s + 1, e)

Min(a, b) == IF a <= b THEN a ELSE b
Max(a, b) == IF a >= b THEN a ELSE b

Range(a) == {a[i] : i \in DOMAIN a}

RECURSIVE SeqSum(_)
SeqSum(a) == IF a = <<>> THEN 0 ELSE Head(a) + SeqSum(Tail(a))

StrictlyIncreasing(a) == \A i \in 1..(Len(a) - 1) : a[i] < a[i + 1]

\* a[mask]: the elements of a at the positions where keep is TRUE
RECURSIVE Compress(_, _)
Compress(a, keep) ==
    IF a = <<>> THEN <<>>
    ELSE (IF Head(keep) THEN <<Head(a)>> ELSE <<>>) \o Compress(Tail(a), Tail(keep))

\* a[idx] for a sequence idx of 0-based indices (numpy fancy indexing)
Take(a, idx) == [k \in 1..Len(idx) |-> At(a, idx[k])]

\* CDIPnc.get_var_prefix: the part of the name before its first capital
Prefix(name) ==
    CASE name \in {"waveTime", "waveHs", "waveTp", "waveEnergyDensity",
                   "waveMeanDirection", "waveA1Value", "waveB1Value",
                   "waveA2Value", "waveB2Value", "waveCheckFactor"} -> "wave"
      [] name \in {"xyzTime", "xyzXDisplacement", "xyzYDisplacement",
                   "xyzZDisplacement"} -> "xyz"
      [] name \in {"sstTime", "sstSeaSurfaceTemperature"} -> "sst"
      [] name \in {"acmTime", "acmSpeed"} -> "acm"
      [] name \in {"cat4Time", "cat4AirTemperature"} -> "cat4"
      [] name \in {"gpsTime", "gpsLatitude"} -> "gps"
      [] OTHER -> "meta"

TimeName(prefix) ==
    CASE prefix = "wave" -> "waveTime"
      [] prefix = "xyz" -> "xyzTime"
      [] prefix = "sst" -> "sstTime"
      [] prefix = "acm" -> "acmTime"
      [] prefix = "cat4" -> "cat4Time"
      [] prefix = "gps" -> "gpsTime"
      [] OTHER -> "metaTime"

----------------------------------------------------------------------------
(* Calls and what they return *)

NoReq == [op |-> "none"]
Ok(d) == [status |-> "ok", data |-> d]
NoResult == [status |-> "none", data |-> EmptyDict]
Raised(what) == [status |-> "error", data |-> EmptyDict, error |-> what]

----------------------------------------------------------------------------
(* numpy.unique(ar, return_index=True), as stndata.remove_duplicates calls *)
(* it: a stable argsort, then the first element of every run of equals.    *)

\* the mutant: ties in reverse index order (an unstable sort)
RECURSIVE InsertSortedLast(_, _, _)
InsertSortedLast(perm, ar, i) ==
    IF perm = <<>> THEN <<i>>
    ELSE IF At(ar, Head(perm)) < At(ar, i)
         THEN <<Head(perm)>> \o InsertSortedLast(Tail(perm), ar, i)
         ELSE <<i>> \o perm

\* perm (0-based indices, sorted by value, ties in index order) with i added
RECURSIVE InsertSorted(_, _, _)
InsertSorted(perm, ar, i) ==
    IF perm = <<>> THEN <<i>>
    ELSE IF At(ar, Head(perm)) <= At(ar, i)
         THEN <<Head(perm)>> \o InsertSorted(Tail(perm), ar, i)
         ELSE <<i>> \o perm

RECURSIVE ArgsortUpTo(_, _)
ArgsortUpTo(ar, n) ==
    IF n = 0 THEN <<>> ELSE InsertSorted(ArgsortUpTo(ar, n - 1), ar, n - 1)

\* the mutant: no sort at all, the elements stay where they are
ArgsortInPlace(ar) == [i \in 1..Len(ar) |-> i - 1]

StableArgsort(ar) == ArgsortUpTo(ar, Len(ar))

\* mask[k]: the k-th sorted element starts a run
RunStarts(ar, perm) ==
    [k \in 1..Len(perm) |-> k = 1 \/ At(ar, perm[k]) # At(ar, perm[k - 1])]

UniqueIndicesKeepAll(ar) == StableArgsort(ar)

UniqueIndices(ar) ==
    LET perm == StableArgsort(ar) IN Compress(perm, RunStarts(ar, perm))

UniqueValues(ar) == Take(ar, UniqueIndices(ar))

----------------------------------------------------------------------------
(* StnData.remove_duplicates *)

\* numpy.unique(ar, return_inverse=True): for every element of ar the
\* 0-based position of its value among the sorted distinct values
UniqueInverse(ar) ==
    [i \in 1..Len(ar) |-> Cardinality({v \in Range(ar) : v < ar[i]})]

\* the mutant: return_inverse taken for return_index
remove_duplicates_inverse(data_dict) ==
    IF DOMAIN data_dict = {} THEN data_dict
    ELSE LET time_dimension_name == "waveTime"
             ar == data_dict[time_dimension_name]
         IN  [key \in DOMAIN data_dict |->
                 IF key = time_dimension_name THEN UniqueValues(ar)
                 ELSE [i \in 1..Len(ar) |->
                          IF UniqueInverse(ar)[i] < Len(data_dict[key])
                          THEN At(data_dict[key], UniqueInverse(ar)[i])
                          ELSE 0]]

\* keys[0]: the dict's first key in insertion order is any of its keys
\* of the request's prefix; every key of a record set shares one prefix
FirstKey(data_dict) == CHOOSE k \in DOMAIN data_dict : TRUE

remove_duplicates(data_dict) ==
    IF DOMAIN data_dict = {} THEN data_dict
    ELSE LET time_dimension_name == TimeName(Prefix(FirstKey(data_dict)))
             time_values == UniqueValues(data_dict[time_dimension_name])
             indices_of_unique_values == UniqueIndices(data_dict[time_dimension_name])
         IN  [key \in DOMAIN data_dict |->
                 IF key = time_dimension_name THEN time_values
                 ELSE Take(data_dict[key], indices_of_unique_values)]

----------------------------------------------------------------------------
(* A netCDF file of one station.  time is the file's time coordinate of    *)
(* the family fam (waveTime, sstTime, ...), flag the family's primary      *)
(* quality flag, vars the family's variables on that time dimension; the   *)
(* value stored for a record names the file and the record's time.         *)

\* flag values of the files: 1 good, 2 not_evaluated, 4 bad
FlagValues == {1, 2, 4}

Families == {"wave", "sst", "acm", "cat4"}

FlagName(fam) ==
    CASE fam = "wave" -> "waveFlagPrimary"
      [] fam = "sst" -> "sstFlagPrimary"
      [] fam = "acm" -> "acmFlagPrimary"
      [] fam = "cat4" -> "cat4FlagPrimary"
      [] fam = "xyz" -> "xyzFlagPrimary"
      [] OTHER -> "gpsStatusFlags"

FamilyVars(fam) ==
    CASE fam = "wave" -> {"waveHs", "waveTp"}
      [] fam = "sst" -> {"sstSeaSurfaceTemperature"}
      [] fam = "acm" -> {"acmSpeed"}
      [] fam = "cat4" -> {"cat4AirTemperature"}
      [] OTHER -> {}

ClosedFile == [nc |-> FALSE]

\* an open file named id holding the variables names of family fam
MkFile(id, fam, names, times, flags) ==
    [nc |-> TRUE, id |-> id, fam |-> fam, time |-> times, flag |-> flags,
     vars |-> [v \in names |-> [i \in 1..Len(times) |-> <<id, times[i]>>]]]

\* CDIPnc.get_var(name) is not None
HasVar(f, name) ==
    f.nc /\ (name \in DOMAIN f.vars \/ name = TimeName(f.fam) \/ name = FlagName(f.fam))

----------------------------------------------------------------------------
(* bisect.bisect_left and bisect.bisect_right, as CDIPnc.__get_indices     *)
(* calls them                                                              *)

RECURSIVE bisect_left(_, _, _, _)
bisect_left(a, x, lo, hi) ==
    IF lo < hi
    THEN LET mid == (lo + hi) \div 2
         IN  IF At(a, mid) < x THEN bisect_left(a, x, mid + 1, hi)
             ELSE bisect_left(a, x, lo, mid)
    ELSE lo

RECURSIVE bisect_right(_, _, _, _)
bisect_right(a, x, lo, hi) ==
    IF lo < hi
    THEN LET mid == (lo + hi) \div 2
         IN  IF x < At(a, mid) THEN bisect_right(a, x, lo, mid)
             ELSE bisect_right(a, x, mid + 1, hi)
    ELSE lo

\* the mutant: the end index found with bisect_left, so a record at
\* end_stamp is left out
get_indices_open_end(times, start_stamp, end_stamp) ==
    LET s_idx == bisect_left(times, start_stamp, 0, Len(times))
    IN  <<s_idx, bisect_left(times, end_stamp, s_idx, Len(times))>>

\* CDIPnc.__get_indices
get_indices(times, start_stamp, end_stamp) ==
    LET s_idx == bisect_left(times, start_stamp, 0, Len(times))
        e_idx == bisect_right(times, end_stamp, s_idx, Len(times))
    IN  <<s_idx, e_idx>>

----------------------------------------------------------------------------
(* CDIPnc.make_pub_mask: TRUE excludes the record.  NoMask is python None. *)

NoMask == [none |-> TRUE, m |-> <<>>]
Mask(m) == [none |-> FALSE, m |-> m]

\* the mutant: every flag family takes 1 for GOOD
make_pub_mask_one_good(anc_name, primary_flag_values, pub_set) ==
    LET public_mask == [i \in DOMAIN primary_flag_values |-> primary_flag_values[i] # 1]
    IN  CASE pub_set = "public" -> Mask(public_mask)
          [] pub_set = "nonpub" -> Mask([i \in DOMAIN public_mask |-> ~public_mask[i]])
          [] OTHER -> Mask([i \in DOMAIN public_mask |-> FALSE])

\* primary_flag_values is nc_primary[s_idx:e_idx]
make_pub_mask(anc_name, primary_flag_values, pub_set) ==
    IF anc_name = "waveFrequencyFlagPrimary" THEN NoMask
    ELSE IF anc_name = "gpsStatusFlags"
    THEN Mask([i \in DOMAIN primary_flag_values |-> primary_flag_values[i] < 0])
    ELSE IF anc_name \in {"waveFlagPrimary", "sstFlagPrimary", "acmFlagPrimary",
                          "cat4FlagPrimary", "xyzFlagPrimary"}
    THEN LET good == IF anc_name = "xyzFlagPrimary" THEN 2 ELSE 1
             public_mask ==
                 [i \in DOMAIN primary_flag_values |-> primary_flag_values[i] # good]
         IN  CASE pub_set = "public" -> Mask(public_mask)
               [] pub_set = "nonpub" ->
                      Mask([i \in DOMAIN public_mask |-> ~public_mask[i]])
               [] pub_set = "all" ->
                      Mask([i \in DOMAIN primary_flag_values |->
                               primary_flag_values[i] < 0])
               [] OTHER -> NoMask
    ELSE NoMask

----------------------------------------------------------------------------
(* CDIPnc.get_request for variables on a time dimension.  rq holds what    *)
(* set_request_info (or a merge helper) stored on the file object: vrs,    *)
(* start_stamp, end_stamp, pub_set, apply_mask.                            *)

\* v[~anc_mask]
ApplyMask(v, anc_mask) == Compress(v, [i \in DOMAIN anc_mask |-> ~anc_mask[i]])

\* the mutant: the mask is applied to the variables and not to the time array
get_request_time_unmasked(f, rq) ==
    LET time_dim == TimeName(f.fam)
        idx == get_indices(f.time, rq.start_stamp, rq.end_stamp)
        anc_mask == make_pub_mask(FlagName(f.fam), Slice(f.flag, idx[1], idx[2]),
                                  rq.pub_set)
        names == {rq.vrs[i] : i \in DOMAIN rq.vrs} \cap DOMAIN f.vars
    IN  IF ~HasVar(f, rq.vrs[1]) \/ idx[1] = idx[2] THEN EmptyDict
        ELSE [k \in names \cup {time_dim} |->
                 IF k = time_dim THEN Slice(f.time, idx[1], idx[2])
                 ELSE IF rq.apply_mask /\ ~anc_mask.none
                      THEN ApplyMask(Slice(f.vars[k], idx[1], idx[2]), anc_mask.m)
                      ELSE Slice(f.vars[k], idx[1], idx[2])]

\* the mutant: a window without records returns the keys with empty arrays
get_request_keeps_keys(f, rq) ==
    LET idx == get_indices(f.time, rq.start_stamp, rq.end_stamp)
        anc_mask == make_pub_mask(FlagName(f.fam), Slice(f.flag, idx[1], idx[2]),
                                  rq.pub_set)
        names == {rq.vrs[i] : i \in DOMAIN rq.vrs} \cap DOMAIN f.vars
    IN  IF ~HasVar(f, rq.vrs[1]) THEN EmptyDict
        ELSE [k \in names \cup {TimeName(f.fam)} |->
                 IF rq.apply_mask /\ ~anc_mask.none
                 THEN ApplyMask(Slice(IF k = TimeName(f.fam) THEN f.time ELSE f.vars[k],
                                      idx[1], idx[2]), anc_mask.m)
                 ELSE Slice(IF k = TimeName(f.fam) THEN f.time ELSE f.vars[k],
                            idx[1], idx[2])]

get_request(f, rq) ==
    LET time_dim == TimeName(f.fam)
        idx == get_indices(f.time, rq.start_stamp, rq.end_stamp)
        s_idx == idx[1]
        e_idx == idx[2]
        \* the requested variables the file holds
        names == {rq.vrs[i] : i \in DOMAIN rq.vrs} \cap DOMAIN f.vars
        mask_results ==
            [k \in names \cup {time_dim} |->
                IF k = time_dim THEN Slice(f.time, s_idx, e_idx)
                ELSE Slice(f.vars[k], s_idx, e_idx)]
        anc_mask == make_pub_mask(FlagName(f.fam), Slice(f.flag, s_idx, e_idx),
                                  rq.pub_set)
    IN  IF ~HasVar(f, rq.vrs[1]) THEN EmptyDict
        ELSE IF s_idx = e_idx THEN EmptyDict
        ELSE [k \in DOMAIN mask_results |->
                 IF rq.apply_mask /\ ~anc_mask.none
                 THEN ApplyMask(mask_results[k], anc_mask.m)
                 ELSE mask_results[k]]

----------------------------------------------------------------------------
(* Requests *)

PubSets == {"public", "nonpub", "all"}

\* request windows [start_stamp, end_stamp], start_stamp <= end_stamp
Windows == {w \in (0..(MaxTime + 1)) \X (0..(MaxTime + 1)) : w[1] <= w[2]}

Request(vrs, w, pub_set, apply_mask) ==
    [op |-> "get_request", vrs |-> vrs, start_stamp |-> w[1], end_stamp |-> w[2],
     pub_set |-> pub_set, apply_mask |-> apply_mask]

\* the variable lists asked of a family: one variable, or all of them
RequestVars(fam) ==
    CASE fam = "wave" -> {<<"waveHs">>, <<"waveHs", "waveTp">>}
      [] fam = "sst" -> {<<"sstSeaSurfaceTemperature">>}
      [] fam = "acm" -> {<<"acmSpeed">>}
      [] fam = "cat4" -> {<<"cat4AirTemperature">>}
      [] OTHER -> {}

\* the elements of a set of numbers in increasing order
RECURSIVE SortedSeq(_)
SortedSeq(S) ==
    IF S = {} THEN <<>>
    ELSE LET m == CHOOSE x \in S : \A y \in S : x <= y
         IN  <<m>> \o SortedSeq(S \ {m})

\* the time arrays a file can hold: strictly increasing over 1..MaxTime
FileTimes == {SortedSeq(S) : S \in SUBSET (1..MaxTime)}

----------------------------------------------------------------------------
(* Reads of a single file *)

ReadFiles ==
    UNION {{MkFile("f", fam, FamilyVars(fam), t, fl) :
               fam \in Families \cup {"xyz"}, fl \in [1..Len(t) -> FlagValues]} :
           t \in FileTimes \ {<<>>}}

InitRead ==
    /\ world \in ReadFiles
    /\ req = NoReq
    /\ result = NoResult
    /\ probes = <<>>
    /\ pc = "init"

\* set_request_info then get_request on the file
Read ==
    /\ pc = "init"
    /\ world.fam \in Families
    /\ \E vrs \in RequestVars(world.fam), w \in Windows, pub_set \in PubSets,
          apply_mask \in BOOLEAN :
          /\ req' = Request(vrs, w, pub_set, apply_mask)
          /\ result' = Ok(get_request(world, req'))
    /\ pc' = "read"
    /\ UNCHANGED <<world, probes>>

\* make_pub_mask(anc_name, s_idx, e_idx) on the file, s_idx = None (the
\* whole array) or the indices of a window
MakePubMask ==
    /\ pc = "init"
    /\ \E anc_name \in {FlagName(world.fam), "gpsStatusFlags",
                         "waveFrequencyFlagPrimary", "waveFlagSecondary"},
          pub_set \in PubSets, whole \in BOOLEAN, w \in Windows :
          LET idx == IF whole THEN <<0, Len(world.flag)>>
                     ELSE get_indices(world.time, w[1], w[2])
              primary_flag_values == Slice(world.flag, idx[1], idx[2])
          IN  /\ req' = [op |-> "make_pub_mask", anc_name |-> anc_name,
                         s_idx |-> idx[1], e_idx |-> idx[2], pub_set |-> pub_set]
              /\ result' = [status |-> "ok", data |-> EmptyDict,
                            mask |-> make_pub_mask(anc_name, primary_flag_values,
                                                   pub_set)]
    /\ pc' = "mask"
    /\ UNCHANGED <<world, probes>>

NextRead == Read \/ MakePubMask

SpecRead == InitRead /\ [][NextRead]_vars

\* the GOOD value of a flag family
GoodOf(anc_name) == IF anc_name = "xyzFlagPrimary" THEN 2 ELSE 1

FamilyFlagNames ==
    {"waveFlagPrimary", "sstFlagPrimary", "acmFlagPrimary", "cat4FlagPrimary",
     "xyzFlagPrimary"}

\* what a quality set excludes
Excludes(pub_set, flag, good) ==
    CASE pub_set = "public" -> flag # good
      [] pub_set = "nonpub" -> flag = good
      [] OTHER -> FALSE

\* C9: the quality mask excludes exactly the records whose primary flag is
\* not GOOD (public), is GOOD (nonpub), or none (all), with GOOD = 1 for the
\* wave, sst, acm and cat4 families and 2 for the xyz family; so exactly one
\* of the public and the nonpub mask excludes any record.
C9_QualityMask ==
    (pc = "mask" /\ req.anc_name \in FamilyFlagNames) =>
        LET flags == Slice(world.flag, req.s_idx, req.e_idx)
            pub == make_pub_mask(req.anc_name, flags, "public")
            non == make_pub_mask(req.anc_name, flags, "nonpub")
        IN  /\ ~result.mask.none
            /\ DOMAIN result.mask.m = DOMAIN flags
            /\ \A i \in DOMAIN flags :
                   result.mask.m[i] = Excludes(req.pub_set, flags[i], GoodOf(req.anc_name))
            /\ \A i \in DOMAIN flags : pub.m[i] # non.m[i]

\* a mask of the xyz family over records flagged 1 and 2 has been made
C9_Witness ==
    /\ pc = "mask"
    /\ req.anc_name = "xyzFlagPrimary"
    /\ req.pub_set = "public"
    /\ {1, 2} \subseteq Range(Slice(world.flag, req.s_idx, req.e_idx))
    /\ \E i, j \in DOMAIN result.mask.m : result.mask.m[i] /\ ~result.mask.m[j]

\* the times of the file's records in the window which the read keeps
KeptTimes(f, rq) ==
    {f.time[i] : i \in {j \in DOMAIN f.time :
        /\ rq.start_stamp <= f.time[j]
        /\ f.time[j] <= rq.end_stamp
        /\ rq.apply_mask =>
               ~Excludes(rq.pub_set, f.flag[j], GoodOf(FlagName(f.fam)))}}

\* C10: with apply_mask true every returned array on the time dimension,
\* the time array included, holds exactly the records of the window that
\* the quality mask keeps; with apply_mask false, all records of the window.
C10_MaskApplied ==
    pc = "read" =>
        LET kept == SortedSeq(KeptTimes(world, req))
        IN  \A k \in DOMAIN result.data :
                /\ TimeName(world.fam) \in DOMAIN result.data
                /\ result.data[k] =
                       IF k = TimeName(world.fam) THEN kept
                       ELSE [i \in DOMAIN kept |-> <<world.id, kept[i]>>]

\* a read with apply_mask has dropped a record of the window and kept another
C10_Witness ==
    /\ pc = "read"
    /\ req.apply_mask
    /\ req.pub_set = "nonpub"
    /\ Len(req.vrs) = 2
    /\ DOMAIN result.data = {"waveTime", "waveHs", "waveTp"}
    /\ Len(result.data["waveTime"]) = 1
    /\ Cardinality({i \in DOMAIN world.time :
           req.start_stamp <= world.time[i] /\ world.time[i] <= req.end_stamp}) >= 2

----------------------------------------------------------------------------
(* spectra.py: the band layouts.  Frequencies and bandwidths are exact     *)
(* integers in units of 1/320000 Hz (0.005 Hz = 1600, 1/256 Hz = 1250),    *)
(* the smallest unit in which every band edge of every layout is whole.    *)

Spectrum_64band_freq ==
    <<
       8000, 9600, 11200, 12800, 14400, 16000, 17600, 19200, 20800, 22400,
       24000, 25600, 27200, 28800, 30400, 32400, 35200, 38400, 41600, 44800,
       48000, 51200, 54400, 57600, 60800, 64000, 67200, 70400, 73600, 76800,
       80000, 83200, 86400, 89600, 92800, 96000, 99200, 102400, 105600, 108800,
       112000, 115200, 118400, 121600, 124800, 128000, 131200, 134400, 137600, 140800,
       144000, 147200, 150400, 153600, 156800, 160000, 163200, 166400, 169600, 172800,
       176000, 179200, 182400, 185600
    >>

Spectrum_64band_bandwidth ==
    <<
       1600, 1600, 1600, 1600, 1600, 1600, 1600, 1600, 1600, 1600,
       1600, 1600, 1600, 1600, 1600, 2400, 3200, 3200, 3200, 3200,
       3200, 3200, 3200, 3200, 3200, 3200, 3200, 3200, 3200, 3200,
       3200, 3200, 3200, 3200, 3200, 3200, 3200, 3200, 3200, 3200,
       3200, 3200, 3200, 3200, 3200, 3200, 3200, 3200, 3200, 3200,
       3200, 3200, 3200, 3200, 3200, 3200, 3200, 3200, 3200, 3200,
       3200, 3200, 3200, 3200
    >>

Spectrum_9band_freq ==
    <<
       11264, 16160, 18880, 21440, 24768, 29344, 36000, 46656, 106656
    >>

Spectrum_9band_bandwidth ==
    <<
       6560, 3232, 2208, 2848, 3808, 5344, 8000, 13344, 106656
    >>

Spectrum_100band_freq ==
    <<
       8000, 9600, 11200, 12800, 14400, 16000, 17600, 19200, 20800, 22400,
       24000, 25600, 27200, 28800, 30400, 32000, 33600, 35200, 36800, 38400,
       40000, 41600, 43200, 44800, 46400, 48000, 49600, 51200, 52800, 54400,
       56000, 57600, 59200, 60800, 62400, 64000, 65600, 67200, 68800, 70400,
       72000, 73600, 75200, 76800, 78400, 80400, 83200, 86400, 89600, 92800,
       96000, 99200, 102400, 105600, 108800, 112000, 115200, 118400, 121600, 124800,
       128000, 131200, 134400, 137600, 140800, 144000, 147200, 150400, 153600, 156800,
       160000, 163200, 166400, 169600, 172800, 176000, 179200, 182400, 186400, 192000,
       198400, 204800, 211200, 217600, 224000, 230400, 236800, 243200, 249600, 256000,
       262400, 268800, 275200, 281600, 288000, 294400, 300800, 307200, 313600, 320000
    >>

Spectrum_100band_bandwidth ==
    <<
       1600, 1600, 1600, 1600, 1600, 1600, 1600, 1600, 1600, 1600,
       1600, 1600, 1600, 1600, 1600, 1600, 1600, 1600, 1600, 1600,
       1600, 1600, 1600, 1600, 1600, 1600, 1600, 1600, 1600, 1600,
       1600, 1600, 1600, 1600, 1600, 1600, 1600, 1600, 1600, 1600,
       1600, 1600, 1600, 1600, 1600, 2400, 3200, 3200, 3200, 3200,
       3200, 3200, 3200, 3200, 3200, 3200, 3200, 3200, 3200, 3200,
       3200, 3200, 3200, 3200, 3200, 3200, 3200, 3200, 3200, 3200,
       3200, 3200, 3200, 3200, 3200, 3200, 3200, 3200, 4800, 6400,
       6400, 6400, 6400, 6400, 6400, 6400, 6400, 6400, 6400, 6400,
       6400, 6400, 6400, 6400, 6400, 6400, 6400, 6400, 6400, 6400
    >>

\* Spectrum.set_FreqBands(num, sz)
set_FreqBands(num, sz) ==
    [freq |-> [x \in 1..sz |-> x * num], bandwidth |-> [x \in 1..sz |-> num]]

\* the attributes a class of the module sets in __init__ without arguments
ClassLayout(cls) ==
    CASE cls = "Spectrum_64band" ->
             [freq |-> Spectrum_64band_freq, bandwidth |-> Spectrum_64band_bandwidth]
      [] cls = "Spectrum_9band" ->
             [freq |-> Spectrum_9band_freq, bandwidth |-> Spectrum_9band_bandwidth]
      [] cls = "Spectrum_100band" ->
             [freq |-> Spectrum_100band_freq, bandwidth |-> Spectrum_100band_bandwidth]
      [] cls = "Spectrum_128band" -> set_FreqBands(1250, 128)
      [] OTHER -> [freq |-> <<>>, bandwidth |-> <<>>]

\* the classes with a fixed layout, in the order of Spectrum.__subclasses__()
FixedLayouts ==
    <<"Spectrum_64band", "Spectrum_9band", "Spectrum_100band", "Spectrum_128band",
      "Spectrum_custom">>

\* Spectrum.freq_cutoffs: the (low, high) edges of every band
freq_cutoffs(layout) ==
    [i \in DOMAIN layout.freq |->
        <<layout.freq[i] - layout.bandwidth[i] \div 2,
          layout.freq[i] + layout.bandwidth[i] \div 2>>]

\* the mutant of OverlapWidth: a source band that reaches into the bin is
\* added whole
OverlapWidthWholeBand(r, o) ==
    LET bot == IF r[1] >= o[1] THEN r[1] ELSE o[1]
        top == IF r[2] <= o[2] THEN r[2] ELSE o[2]
    IN  IF bot < top THEN o[2] - o[1] ELSE 0

\* redistribute_sp, lines 269-272: top - bot of target bin r = (rBot, rTop)
\* and source band o = (oBot, oTop) when bot < top, else nothing to add
OverlapWidth(r, o) ==
    LET bot == IF r[1] >= o[1] THEN r[1] ELSE o[1]
        top == IF r[2] <= o[2] THEN r[2] ELSE o[2]
    IN  IF bot < top THEN top - bot ELSE 0

----------------------------------------------------------------------------
(* Exact arithmetic for the float arrays of a spectrum: a value is the     *)
(* fraction n / d in lowest terms with d > 0.                              *)

RECURSIVE GCD(_, _)
GCD(a, b) == IF b = 0 THEN a ELSE GCD(b, a % b)

Abs(x) == IF x < 0 THEN -x ELSE x

Rat(n, d) ==
    LET g == GCD(Abs(n), d)
    IN  [n |-> n \div g, d |-> d \div g]

Zero == [n |-> 0, d |-> 1]

RatAdd(a, b) ==
    IF a.n = 0 THEN b
    ELSE IF b.n = 0 THEN a
    ELSE LET g == GCD(a.d, b.d)
         IN  Rat(a.n * (b.d \div g) + b.n * (a.d \div g), (a.d \div g) * b.d)

RatMul(a, b) ==
    IF a.n = 0 \/ b.n = 0 THEN Zero
    ELSE LET g1 == GCD(Abs(a.n), b.d)
             g2 == GCD(Abs(b.n), a.d)
         IN  [n |-> (a.n \div g1) * (b.n \div g2), d |-> (a.d \div g2) * (b.d \div g1)]

\* a / b for b # 0
RatDiv(a, b) ==
    RatMul(a, [n |-> IF b.n < 0 THEN -b.d ELSE b.d, d |-> Abs(b.n)])

RatLess(a, b) == a.n * b.d < b.n * a.d

RECURSIVE RatSum(_)
RatSum(a) == IF a = <<>> THEN Zero ELSE RatAdd(Head(a), RatSum(Tail(a)))

\* a width or frequency of the layout tables, in Hz
Hz(units) == Rat(units, 320000)

----------------------------------------------------------------------------
(* Mean directions.  The sentinel -1 is Undefined; a direction in degrees  *)
(* is kept as the integer vector (s, c) in lowest terms with the           *)
(* direction's sine : cosine ratio, so that 0 is (0, 1) and 90 is (1, 0).  *)

Undefined == [def |-> FALSE, s |-> 0, c |-> 0]

Degrees(s, c) ==
    LET g == GCD(Abs(s), Abs(c))
    IN  [def |-> TRUE, s |-> s \div g, c |-> c \div g]

\* math.sin(math.radians(d)) and math.cos(math.radians(d)) for a direction
\* along an axis (0, 90, 180, 270), which is what the sources below carry
sin_radians(dir) == [n |-> dir.s, d |-> 1]
cos_radians(dir) == [n |-> dir.c, d |-> 1]

\* math.degrees(math.atan2(sin_avg, cos_avg)), plus 360 when negative;
\* atan2(0, 0) is 0
atan2_degrees(sin_avg, cos_avg) ==
    IF sin_avg.n = 0 /\ cos_avg.n = 0 THEN Degrees(0, 1)
    ELSE LET g == GCD(sin_avg.d, cos_avg.d)
         IN  Degrees(sin_avg.n * (cos_avg.d \div g), cos_avg.n * (sin_avg.d \div g))

----------------------------------------------------------------------------
(* Spectrum.redistribute_sp.  A spectrum is its class name cls, wTime and  *)
(* the per-band arrays ener_dens, dMean, a1, b1, a2, b2 and, when hasCheck, *)
(* check.                                                                  *)

\* the names getattr(MODULE, name) resolves to something other than a layout
OtherModuleNames == {"Spectrum", "Spectra"}

ReturnedNone == [status |-> "none", data |-> EmptyDict]

Layout(self) == ClassLayout(self.cls)

\* Spectrum.get_Energy: ener_dens * bandwidth
get_Energy(self) ==
    [i \in DOMAIN self.ener_dens |->
        RatMul(self.ener_dens[i], Hz(Layout(self).bandwidth[i]))]

\* the bands of a spectrum that hold energy, in increasing order
EnergyBands(self) ==
    SortedSeq({j \in DOMAIN self.ener_dens : self.ener_dens[j].n # 0})

\* np.sum(self.get_Energy()); the bands without energy add nothing
TotalEnergy(self) ==
    RatSum([k \in DOMAIN EnergyBands(self) |-> get_Energy(self)[EnergyBands(self)[k]]])

\* lines 263-278 for target bin r = (rBot, rTop): the source bands j that
\* add something to the bin (bot < top and curr_energy # 0) with their
\* top - bot, in the order of the inner loop; bands lists the source bands
\* with energy
Row(r, orig_botsTops, bands) ==
    LET js == SelectSeq(bands, LAMBDA j : OverlapWidth(r, orig_botsTops[j]) > 0)
    IN  [k \in DOMAIN js |-> [j |-> js[k], w |-> OverlapWidth(r, orig_botsTops[js[k]])]]

\* line 276 for those bands: curr_energy
CurrEnergy(self, row) ==
    [k \in DOMAIN row |-> RatMul(self.ener_dens[row[k].j], Hz(row[k].w))]

\* the sum a bin accumulates in ener_dens[i] (line 279)
EnergySum(self, row) == RatSum(CurrEnergy(self, row))

\* line 283-284
MissDir(self, row) == \E k \in DOMAIN row : ~self.dMean[row[k].j].def

\* lines 286-297: the sum of curr_energy * vals[j] over the source bands
\* with energy and a direction
WeightedSum(self, row, vals) ==
    RatSum([k \in DOMAIN row |->
               IF self.dMean[row[k].j].def
               THEN RatMul(CurrEnergy(self, row)[k], vals[row[k].j])
               ELSE Zero])

\* the mutant: a bin that a band without direction adds to keeps no energy
BinEnerDensDirected(self, row, bw) ==
    LET e == EnergySum(self, row)
    IN  IF MissDir(self, row) THEN Zero
        ELSE IF e.n > 0 THEN RatDiv(e, Hz(bw)) ELSE e

\* lines 300-301
BinEnerDens(self, row, bw) ==
    LET e == EnergySum(self, row)
    IN  IF e.n > 0 THEN RatDiv(e, Hz(bw)) ELSE e

\* the mutant: a band without direction among the sources is overlooked
BinHasDirWhateverSources(self, row) == EnergySum(self, row).n > 0

\* lines 302-307: the bin has a direction before the coefficients are looked at
BinHasDir(self, row) == EnergySum(self, row).n > 0 /\ ~MissDir(self, row)

\* lines 308-311 and 320-323 for one coefficient array
BinCoeff(self, row, bw, vals) ==
    LET acc == WeightedSum(self, row, vals)
    IN  IF BinHasDir(self, row)
        THEN RatDiv(RatDiv(acc, Hz(bw)), BinEnerDens(self, row, bw))
        ELSE acc

\* the mutant of BinCheck: the ceiling is never applied
BinCheckUnclamped(self, row, bw) == BinCoeff(self, row, bw, self.check)

\* lines 312-313 and 324-327
BinCheck(self, row, bw) ==
    LET c == BinCoeff(self, row, bw, self.check)
    IN  IF BinHasDir(self, row) /\ RatLess([n |-> 51, d |-> 20], c)
        THEN [n |-> 51, d |-> 20]
        ELSE c

\* lines 328-335
CoeffsInRange(self, row, bw) ==
    \A vals \in {self.a1, self.b1, self.a2, self.b2} :
        LET c == BinCoeff(self, row, bw, vals)
        IN  ~RatLess([n |-> 1, d |-> 1], c) /\ ~RatLess(c, [n |-> -1, d |-> 1])

\* lines 303-307, 319 and 335
BinDMean(self, row, bw) ==
    IF BinHasDir(self, row) /\ CoeffsInRange(self, row, bw)
    THEN atan2_degrees(
             RatDiv(WeightedSum(self, row, [j \in DOMAIN self.dMean |-> sin_radians(self.dMean[j])]),
                    BinEnerDens(self, row, bw)),
             RatDiv(WeightedSum(self, row, [j \in DOMAIN self.dMean |-> cos_radians(self.dMean[j])]),
                    BinEnerDens(self, row, bw)))
    ELSE Undefined

\* lines 239-337 once the class is resolved
Redistributed(self, cls, bandwidth, redist_botsTops, orig_botsTops, bands) ==
    [cls |-> cls,
     wTime |-> self.wTime,
     ener_dens |-> [i \in DOMAIN bandwidth |->
         BinEnerDens(self, Row(redist_botsTops[i], orig_botsTops, bands), bandwidth[i])],
     dMean |-> [i \in DOMAIN bandwidth |->
         BinDMean(self, Row(redist_botsTops[i], orig_botsTops, bands), bandwidth[i])],
     a1 |-> [i \in DOMAIN bandwidth |->
         BinCoeff(self, Row(redist_botsTops[i], orig_botsTops, bands), bandwidth[i], self.a1)],
     b1 |-> [i \in DOMAIN bandwidth |->
         BinCoeff(self, Row(redist_botsTops[i], orig_botsTops, bands), bandwidth[i], self.b1)],
     a2 |-> [i \in DOMAIN bandwidth |->
         BinCoeff(self, Row(redist_botsTops[i], orig_botsTops, bands), bandwidth[i], self.a2)],
     b2 |-> [i \in DOMAIN bandwidth |->
         BinCoeff(self, Row(redist_botsTops[i], orig_botsTops, bands), bandwidth[i], self.b2)],
     hasCheck |-> self.hasCheck,
     check |-> IF self.hasCheck
               THEN [i \in DOMAIN bandwidth |->
                        BinCheck(self, Row(redist_botsTops[i], orig_botsTops, bands), bandwidth[i])]
               ELSE <<>>]

redistribute_sp(self, specInstClass) ==
    IF specInstClass \in OtherModuleNames THEN Raised("AttributeError")
    ELSE IF specInstClass \notin Range(FixedLayouts) THEN ReturnedNone
    ELSE Ok(Redistributed(self, specInstClass, ClassLayout(specInstClass).bandwidth,
                          freq_cutoffs(ClassLayout(specInstClass)),
                          freq_cutoffs(Layout(self)), EnergyBands(self)))

----------------------------------------------------------------------------
(* Redistributions of one spectrum.  The source carries a unit energy    *)
(* density in a run of at most MaxRun neighbouring bands, anywhere in its  *)
(* layout; directions, coefficients and check factors cycle through the    *)
(* bands.                                                                  *)

SourceClasses == {"Spectrum_64band", "Spectrum_9band", "Spectrum_100band"}

DirectionCycle == <<Degrees(0, 1), Undefined, Degrees(1, 0)>>

CoeffCycle == <<[n |-> 1, d |-> 2], [n |-> -1, d |-> 1], Zero>>

CheckCycle == <<[n |-> 1, d |-> 1], [n |-> 51, d |-> 20], [n |-> 3, d |-> 1]>>

Cycle(values, j) == values[(j % Len(values)) + 1]

\* the array a source holds for one spectral variable
SourceArray(cls, k, run, name) ==
    [j \in DOMAIN ClassLayout(cls).freq |->
        CASE name = "waveEnergyDensity" ->
                 IF j >= k /\ j < k + run THEN [n |-> 1, d |-> 1] ELSE Zero
          [] name = "waveMeanDirection" -> Cycle(DirectionCycle, j)
          [] name = "waveA1Value" -> Cycle(CoeffCycle, j)
          [] name = "waveB1Value" -> Cycle(CoeffCycle, j + 1)
          [] name = "waveA2Value" -> Cycle(CoeffCycle, j + 2)
          [] name = "waveB2Value" -> Cycle(CoeffCycle, j)
          [] OTHER -> Cycle(CheckCycle, j)]

SourceSpectrum(cls, k, run, hasCheck) ==
    [cls |-> cls,
     wTime |-> 0,
     ener_dens |-> SourceArray(cls, k, run, "waveEnergyDensity"),
     dMean |-> SourceArray(cls, k, run, "waveMeanDirection"),
     a1 |-> SourceArray(cls, k, run, "waveA1Value"),
     b1 |-> SourceArray(cls, k, run, "waveB1Value"),
     a2 |-> SourceArray(cls, k, run, "waveA2Value"),
     b2 |-> SourceArray(cls, k, run, "waveB2Value"),
     hasCheck |-> hasCheck,
     check |-> IF hasCheck THEN SourceArray(cls, k, run, "waveCheckFactor") ELSE <<>>]

SourceSpectra ==
    UNION {{SourceSpectrum(cls, k, run, hasCheck) :
               k \in DOMAIN ClassLayout(cls).freq, run \in 0..MaxRun,
               hasCheck \in BOOLEAN} : cls \in SourceClasses}

TargetNames == Range(FixedLayouts) \cup OtherModuleNames \cup {"Spectrum_32band"}

InitRedist ==
    /\ world \in SourceSpectra
    /\ req = NoReq
    /\ result = NoResult
    /\ probes = <<>>
    /\ pc = "idle"

Redistribute ==
    /\ pc = "idle"
    /\ \E specInstClass \in TargetNames :
          /\ req' = [op |-> "redistribute_sp", specInstClass |-> specInstClass]
          /\ result' = redistribute_sp(world, specInstClass)
    /\ pc' = "redistributed"
    /\ UNCHANGED <<world, probes>>

NextRedist == Redistribute

SpecRedist == InitRedist /\ [][NextRedist]_vars

Redistributed_ok == pc = "redistributed" /\ result.status = "ok"

\* the bands of a layout follow one another without a gap or an overlap
Tiles(botsTops) ==
    /\ Len(botsTops) >= 1
    /\ \A i \in 1..(Len(botsTops) - 1) : botsTops[i][2] = botsTops[i + 1][1]

\* every band of the spectrum that holds energy lies inside the frequency
\* range of the layout
CoversEnergy(botsTops, self) ==
    \A k \in DOMAIN EnergyBands(self) :
        LET o == freq_cutoffs(Layout(self))[EnergyBands(self)[k]]
        IN  botsTops[1][1] <= o[1] /\ o[2] <= botsTops[Len(botsTops)][2]

----------------------------------------------------------------------------
(* spectra.Spectra: an array of Spectrum objects made from a record set.   *)
(* In a record set a spectral variable is a 2-D array, kept as its band    *)
(* count (shape[1]) and its rows, one per record; every other variable is  *)
(* a sequence.                                                             *)

spectrum_vars ==
    {"waveEnergyDensity", "waveMeanDirection", "waveA1Value", "waveB1Value",
     "waveA2Value", "waveB2Value", "waveCheckFactor"}

\* python None where a Spectrum object is expected
None == [cls |-> "None"]

\* Spectra.whichSpecClass: the first subclass whose layout has that length
whichSpecClass(length) ==
    LET found == {k \in DOMAIN FixedLayouts :
                     Len(ClassLayout(FixedLayouts[k]).freq) = length}
    IN  IF found = {} THEN "None"
        ELSE FixedLayouts[CHOOSE k \in found : \A o \in found : k <= o]

\* the keys Spectrum.set_specAtts reads without asking
specAtts_keys ==
    {"waveTime", "waveMeanDirection", "waveEnergyDensity", "waveA1Value",
     "waveB1Value", "waveA2Value", "waveB2Value"}

\* Spectrum.set_specAtts
set_specAtts(cls, query, i) ==
    [cls |-> cls,
     wTime |-> query["waveTime"][i],
     ener_dens |-> query["waveEnergyDensity"].rows[i],
     dMean |-> query["waveMeanDirection"].rows[i],
     a1 |-> query["waveA1Value"].rows[i],
     b1 |-> query["waveB1Value"].rows[i],
     a2 |-> query["waveA2Value"].rows[i],
     b2 |-> query["waveB2Value"].rows[i],
     hasCheck |-> "waveCheckFactor" \in DOMAIN query,
     check |-> IF "waveCheckFactor" \in DOMAIN query
               THEN query["waveCheckFactor"].rows[i] ELSE <<>>]

\* Spectra.set_spectrumArr_fromQuery: the new specArr, or what it raises
set_spectrumArr_fromQuery(dataDict) ==
    IF "waveEnergyDensity" \notin DOMAIN dataDict THEN Raised("KeyError")
    ELSE IF dataDict["waveEnergyDensity"].rows = <<>> THEN Raised("IndexError")
    ELSE IF "waveTime" \notin DOMAIN dataDict THEN Raised("KeyError")
    ELSE IF dataDict["waveTime"] = <<>> THEN Ok(<<>>)
    ELSE IF whichSpecClass(dataDict["waveEnergyDensity"].bands) = "None"
         THEN Raised("TypeError")
    ELSE IF ~(specAtts_keys \subseteq DOMAIN dataDict) THEN Raised("KeyError")
    ELSE Ok([e \in DOMAIN dataDict["waveTime"] |->
                set_specAtts(whichSpecClass(dataDict["waveEnergyDensity"].bands),
                             dataDict, e)])

\* what specArr[i] = sp.redistribute_sp(objName) stores: the spectrum, or
\* None; "raised" where the call raised
Stored(returned) ==
    IF returned.status = "ok" THEN returned.data
    ELSE IF returned.status = "none" THEN None
    ELSE [cls |-> "raised"]

\* Spectra.redist_specArr on the specArr made: the type of a spectrum never
\* equals the name objName, so every spectrum is redistributed
redist_specArr(made, objName) ==
    IF made.status # "ok" THEN made
    ELSE Ok([i \in DOMAIN made.data |-> Stored(redistribute_sp(made.data[i], objName))])

\* the rows of one key of Spectra.specArr_ToDict
specArr_rows(specArr, name) ==
    [e \in DOMAIN specArr |->
        CASE name = "waveEnergyDensity" -> specArr[e].ener_dens
          [] name = "waveMeanDirection" -> specArr[e].dMean
          [] name = "waveA1Value" -> specArr[e].a1
          [] name = "waveA2Value" -> specArr[e].a2
          [] name = "waveB1Value" -> specArr[e].b1
          [] name = "waveB2Value" -> specArr[e].b2
          [] OTHER -> specArr[e].check]

\* Spectra.specArr_ToDict on the redistributed specArr
specArr_ToDict(redist) ==
    IF redist.status # "ok" THEN redist
    ELSE IF redist.data = <<>> THEN Ok(EmptyDict)
    ELSE IF \E i \in DOMAIN redist.data : redist.data[i].cls \in {"None", "raised"}
         THEN Raised("AttributeError")
    ELSE Ok([name \in specAtts_keys
                        \cup (IF redist.data[1].hasCheck THEN {"waveCheckFactor"} ELSE {}) |->
                IF name = "waveTime"
                THEN [e \in DOMAIN redist.data |-> redist.data[e].wTime]
                ELSE [bands |-> Len(redist.data[1].ener_dens),
                      rows |-> specArr_rows(redist.data, name)]])

----------------------------------------------------------------------------
(* StnData.__aggregate_dicts.  key is the element next(iter(svars)) picks  *)
(* from the set of spectral variables, which python leaves open.           *)

\* dict[key].shape[1] if key in dict.keys() else 0
Shape1(dict, key) == IF key \in DOMAIN dict THEN dict[key].bands ELSE 0

\* lines 323-325: the spectral variables of the record set are replaced
ReplaceSpectra(dict, redistributed_dict) ==
    IF redistributed_dict.status # "ok" THEN redistributed_dict
    ELSE IF ~((spectrum_vars \cap DOMAIN dict) \subseteq DOMAIN redistributed_dict.data)
         THEN Raised("KeyError")
    ELSE Ok([v \in DOMAIN dict |->
                IF v \in spectrum_vars THEN redistributed_dict.data[v] ELSE dict[v]])

\* lines 318-325 for one of the two record sets
RedistributeDict(dict) ==
    ReplaceSpectra(dict,
        specArr_ToDict(redist_specArr(set_spectrumArr_fromQuery(dict), "Spectrum_64band")))

\* the mutant: the arrays of the second record set come first
ConcatenateReversed(key, a, b) ==
    IF key \in spectrum_vars THEN [bands |-> b.bands, rows |-> b.rows \o a.rows]
    ELSE b \o a

\* ma.concatenate([a, b]) for the arrays of one key
Concatenate(key, a, b) ==
    IF key \in spectrum_vars THEN [bands |-> a.bands, rows |-> a.rows \o b.rows]
    ELSE a \o b

\* lines 326-335, on what lines 316-325 left of the two record sets
ConcatenateDicts(dicts) ==
    IF \E i \in DOMAIN dicts : dicts[i].status # "ok"
    THEN dicts[CHOOSE i \in DOMAIN dicts :
                   dicts[i].status # "ok" /\ \A o \in 1..(i - 1) : dicts[o].status = "ok"]
    ELSE IF \E key \in DOMAIN dicts[1].data \cap DOMAIN dicts[2].data \cap spectrum_vars :
                dicts[1].data[key].bands # dicts[2].data[key].bands
         THEN Raised("ValueError")
    ELSE Ok([key \in DOMAIN dicts[1].data \cup DOMAIN dicts[2].data |->
                IF key \in DOMAIN dicts[2].data /\ key \in DOMAIN dicts[1].data
                THEN Concatenate(key, dicts[1].data[key], dicts[2].data[key])
                ELSE IF key \in DOMAIN dicts[2].data THEN dicts[2].data[key]
                ELSE dicts[1].data[key]])

\* lines 305-325: the two record sets once the 100-band ones are redistributed
RedistributedDicts(dicts, force_64bands, key) ==
    [i \in DOMAIN dicts |->
        IF /\ spectrum_vars \cap (DOMAIN dicts[1] \cup DOMAIN dicts[2]) # {}
           /\ 100 \in {Shape1(dicts[1], key), Shape1(dicts[2], key)}
           /\ (force_64bands \/ 64 \in {Shape1(dicts[1], key), Shape1(dicts[2], key)})
           /\ Shape1(dicts[i], key) = 100
        THEN RedistributeDict(dicts[i])
        ELSE Ok(dicts[i])]

aggregate_dicts(dict1, dict2, force_64bands, key) ==
    ConcatenateDicts(RedistributedDicts(<<dict1, dict2>>, force_64bands, key))

----------------------------------------------------------------------------
(* Aggregations of two wave record sets, each as get_request returns it    *)
(* from one file: nothing at all, or the requested variables the file      *)
(* holds, with 64 or 100 bands and up to MaxRows records.                  *)

SixVars == specAtts_keys \ {"waveTime"}

\* what the two files return of one request; a file may lack waveCheckFactor
KeyPairs ==
    {<<K, K>> : K \in {{"waveHs"}, {"waveEnergyDensity"}, SixVars,
                       SixVars \cup {"waveCheckFactor"}}}
        \cup {<<SixVars \cup {"waveCheckFactor"}, SixVars>>,
              <<SixVars, SixVars \cup {"waveCheckFactor"}>>}

RecordSet(keys, bands, n, t0) ==
    [v \in keys \cup {"waveTime"} |->
        IF v = "waveTime" THEN [e \in 1..n |-> t0 + e]
        ELSE IF v = "waveHs" THEN [e \in 1..n |-> <<bands, t0 + e>>]
        ELSE [bands |-> bands,
              rows |-> [e \in 1..n |->
                           SourceArray(whichSpecClass(bands), 10 + t0 + e, MaxRun, v)]]]

RecordSets(keys, t0) ==
    {EmptyDict} \cup {RecordSet(keys, bands, n, t0) : bands \in {64, 100}, n \in 0..MaxRows}

\* two record sets of one request, and whether the caller asked for 64 bands
Aggregations ==
    UNION {[dict1 : RecordSets(kp[1], 0), dict2 : RecordSets(kp[2], MaxRows),
            force_64bands : BOOLEAN] : kp \in KeyPairs}

InitAgg ==
    /\ world \in Aggregations
    /\ req = NoReq
    /\ result = NoResult
    /\ probes = <<>>
    /\ pc = "idle"

\* the elements next(iter(svars)) can return
IterKeys(dict1, dict2) ==
    LET svars == spectrum_vars \cap (DOMAIN dict1 \cup DOMAIN dict2)
    IN  IF svars = {} THEN {"none"} ELSE svars

Aggregate ==
    /\ pc = "idle"
    /\ \E key \in IterKeys(world.dict1, world.dict2) :
          /\ req' = [op |-> "aggregate_dicts", key |-> key]
          /\ result' = aggregate_dicts(world.dict1, world.dict2, world.force_64bands, key)
    /\ pc' = "aggregated"
    /\ UNCHANGED <<world, probes>>

NextAgg == Aggregate

SpecAgg == InitAgg /\ [][NextAgg]_vars

\* the band counts of the spectral variables of a record set
BandCounts(dict) == {dict[v].bands : v \in spectrum_vars \cap DOMAIN dict}

\* C7: when one of two aggregated record sets carries its spectral
\* variables with 100 bands and the other with 64 bands, the aggregation
\* returns a record set in which every spectral variable has 64 bands in
\* every record, whatever force_64bands is; arrays of different band counts
\* are never concatenated.
C7_SingleBandCount ==
    (/\ pc = "aggregated"
     /\ BandCounts(world.dict1) \cup BandCounts(world.dict2) = {64, 100}
     /\ BandCounts(world.dict1) # BandCounts(world.dict2))
        => /\ result.status = "ok"
           /\ \A v \in spectrum_vars \cap DOMAIN result.data :
                 /\ result.data[v].bands = 64
                 /\ \A e \in DOMAIN result.data[v].rows :
                       Len(result.data[v].rows[e]) = 64

----------------------------------------------------------------------------
(* The deduplication of an arbitrary record set *)

\* time arrays of length <= MaxLen over 1..MaxTime, in any order, repeats allowed
TimeArrays == UNION {[1..n -> 1..MaxTime] : n \in 0..MaxLen}

\* waveHs[i] names the input row i, so that a row can be followed
DedupInput(times) ==
    IF times = <<>> THEN EmptyDict
    ELSE [k \in {"waveTime", "waveHs"} |->
             IF k = "waveTime" THEN times ELSE [i \in 1..Len(times) |-> i]]

InitDedup ==
    /\ world \in {DedupInput(t) : t \in TimeArrays}
    /\ req = NoReq
    /\ result = NoResult
    /\ probes = <<>>
    /\ pc = "init"

Dedup ==
    /\ pc = "init"
    /\ req' = [op |-> "remove_duplicates", arg |-> world]
    /\ result' = Ok(remove_duplicates(world))
    /\ pc' = "dedup"
    /\ UNCHANGED <<world, probes>>

\* remove_duplicates applied to its own result; world keeps the first result
DedupAgain ==
    /\ pc = "dedup"
    /\ world' = result.data
    /\ result' = Ok(remove_duplicates(result.data))
    /\ pc' = "dedup2"
    /\ UNCHANGED <<req, probes>>

NextDedup == Dedup \/ DedupAgain

SpecDedup == InitDedup /\ [][NextDedup]_vars

NoRepeats(a) == Cardinality(Range(a)) = Len(a)

\* C2: for a non-empty record set x, the time array of remove_duplicates(x)
\* holds every distinct timestamp of x, each exactly once, and is no longer
\* than the time array of x.
C2_EachTimestampOnce ==
    (pc = "dedup" /\ DOMAIN world # {}) =>
        /\ Range(result.data["waveTime"]) = Range(world["waveTime"])
        /\ NoRepeats(result.data["waveTime"])
        /\ Len(result.data["waveTime"]) <= Len(world["waveTime"])

\* an input with a repeated timestamp has been deduplicated
C2_Witness ==
    /\ pc = "dedup"
    /\ DOMAIN world # {}
    /\ ~NoRepeats(world["waveTime"])
    /\ Len(result.data["waveTime"]) < Len(world["waveTime"])

\* C3: remove_duplicates applied to its own result returns that result
\* unchanged, the time array and every other variable.
C3_Idempotent == pc = "dedup2" => result.data = world

\* the second application has run on the result of an input that had
\* repeated timestamps out of time order
C3_Witness ==
    /\ pc = "dedup2"
    /\ DOMAIN req.arg # {}
    /\ ~NoRepeats(req.arg["waveTime"])
    /\ ~StrictlyIncreasing(req.arg["waveTime"])
    /\ result.data = world

----------------------------------------------------------------------------
(* cdippy.utils: timestamps and time spans.  A datetime is the epoch time  *)
(* of its fields read as UTC; utcoffset is the offset of the zone the      *)
(* process runs in.                                                        *)

UtcOffsets == {0, -1}

\* time.mktime(dt.timetuple()): the fields of dt are read as local time
datetime_to_timestamp(dt, utcoffset) == dt - utcoffset

Timespan(start_dt, end_dt) == [start_dt |-> start_dt, end_dt |-> end_dt]

\* the mutant: spans that only touch do not overlap
overlap_exclusive(self, tspan) ==
    self.start_dt < tspan.end_dt /\ self.end_dt > tspan.start_dt

overlap(self, tspan) == self.start_dt <= tspan.end_dt /\ self.end_dt >= tspan.start_dt

----------------------------------------------------------------------------
(* The files of a station.  A file holds wave records (time, flag, vars),  *)
(* the coverage attributes, and displacement samples (xyz) or none.  The   *)
(* value stored for a record names the file and the record's time, for a   *)
(* sample the file and the sample's index.                                 *)

\* Load_stn_nc_files checks deployments below this number (99 in the code)
max_deployments == 3

MaskedDelay == [masked |-> TRUE, value |-> 0]
FilterDelay(d) == [masked |-> FALSE, value |-> d]

NoXyz == [has |-> FALSE]

\* len samples from xyzStartTime on, one sample per time unit
XyzData(t0, d, len) ==
    [has |-> TRUE, xyzStartTime |-> t0, xyzSampleRate |-> 1, xyzFilterDelay |-> d,
     len |-> len]

NcFile(id, times, flags, coverage, xyz) ==
    [nc |-> TRUE, id |-> id, fam |-> "wave", time |-> times, flag |-> flags,
     vars |-> [v \in (IF times = <<>> THEN {} ELSE {"waveHs"}) |->
                  [i \in 1..Len(times) |-> <<id, times[i]>>]],
     time_coverage_start |-> coverage[1], time_coverage_end |-> coverage[2],
     xyz |-> xyz]

\* the file has the global attributes time_coverage_start and
\* time_coverage_end
HasCoverage(f) == {"time_coverage_start", "time_coverage_end"} \subseteq DOMAIN f

\* CDIPnc.get_coverage_start, get_coverage_end: the attribute as a datetime
get_coverage_start(f) == f.time_coverage_start
get_coverage_end(f) == f.time_coverage_end

\* self.get_var(name)[:] for a displacement variable
XyzVar(f, name) == [i \in 1..f.xyz.len |-> <<f.id, name, i - 1>>]

\* Archive(self.stn, dep, ...): the archive file of a deployment, if it opens
Archive(self, dep) ==
    IF dep \in DOMAIN self.archive THEN self.archive[dep] ELSE ClosedFile

----------------------------------------------------------------------------
(* Archive.get_request, which ActiveXY and RealtimeXY inherit              *)

\* d = 0 if d[0] is np.ma.masked else d[0]
Delay(f) == IF f.xyz.xyzFilterDelay.masked THEN 0 ELSE f.xyz.xyzFilterDelay.value

\* int(round(r * (timestamp - t0 + d), 0))
get_idx_from_timestamp(f, timestamp) ==
    f.xyz.xyzSampleRate * (timestamp - f.xyz.xyzStartTime + Delay(f))

\* t0 - d + i / r for i in range(start_idx, end_idx)
make_xyzTime(f, start_idx, end_idx) ==
    [k \in 1..(end_idx - start_idx) |->
        f.xyz.xyzStartTime - Delay(f) + (start_idx + k - 1) \div f.xyz.xyzSampleRate]

NoStamp == [none |-> TRUE, value |-> 0]
Stamp(v) == [none |-> FALSE, value |-> v]

get_xyz_timestamp(f, xyzIndex) ==
    IF f.xyz.xyzStartTime # 0 /\ f.xyz.xyzSampleRate # 0 /\ Delay(f) >= 0
    THEN Stamp(f.xyz.xyzStartTime - Delay(f) + xyzIndex \div f.xyz.xyzSampleRate)
    ELSE NoStamp

Archive_get_request(f, rq) ==
    IF Prefix(rq.vrs[1]) # "xyz" THEN Ok(get_request(f, rq))
    ELSE IF ~f.xyz.has THEN Raised("TypeError")
    ELSE LET start_idx == get_idx_from_timestamp(f, rq.start_stamp)
             end_idx == get_idx_from_timestamp(f, rq.end_stamp)
             ts1 == Timespan(start_idx, end_idx)
             ts2 == Timespan(0, f.xyz.len - 1)
         IN  IF ~overlap(ts1, ts2) THEN Ok(EmptyDict)
             ELSE Ok([k \in {"xyzTime"} \cup Range(rq.vrs) |->
                        IF k = "xyzTime"
                        THEN make_xyzTime(f, Max(0, start_idx),
                                          Min(f.xyz.len - 1, end_idx))
                        ELSE Slice(XyzVar(f, k), Max(0, start_idx),
                                   Min(f.xyz.len - 1, end_idx))])

----------------------------------------------------------------------------
(* StnData: the merge paths of get_series.  A merge in progress holds the  *)
(* record set it started from (dict1), the record sets it has read since,  *)
(* in the order __aggregate_dicts receives them, the number of files used, *)
(* the handles it has tried to open, in the order it tried them, whether   *)
(* the result is deduplicated, and the exception the merge itself raised.  *)
(* The aggregation of what was read, which the code does after every read, *)
(* is done over the whole sequence once the reads are known.               *)

Probe(source, deployment, opened, read) ==
    [source |-> source, deployment |-> deployment, opened |-> opened, read |-> read]

\* the record set tmp_result of a get_request, made when nprobes handles
\* had been tried
Reading(tmp_result, nprobes) == [tmp_result |-> tmp_result, nprobes |-> nprobes]

Merge(dict1, reads, num_files_used, tried) ==
    [dict1 |-> dict1, reads |-> reads, num_files_used |-> num_files_used,
     probes |-> tried, dedup |-> FALSE, raised |-> ""]

\* the last get_request raised: the merge goes no further
Raising(st) ==
    st.reads # <<>> /\ st.reads[Len(st.reads)].tmp_result.status # "ok"

\* a handle was tried, and tmp_results (none or one) read from it
Tried(st, probe, tmp_results, used) ==
    [st EXCEPT !.reads = @ \o [i \in 1..Len(tmp_results) |->
                                  Reading(tmp_results[i], Len(st.probes) + 1)],
               !.num_files_used = @ + used,
               !.probes = Append(@, probe)]

\* if num_files_used > atleast: result = self.remove_duplicates(result)
WithDedup(st, atleast) == [st EXCEPT !.dedup = st.num_files_used > atleast]

\* result = self.__aggregate_dicts(result, tmp_result)
Aggregated(dict1, tmp_result, rq) ==
    IF dict1.status # "ok" THEN dict1
    ELSE IF tmp_result.status # "ok" THEN tmp_result
    ELSE aggregate_dicts(dict1.data, tmp_result.data, rq.force_64bands, rq.key)

\* the aggregations of a merge, one after the other; nprobes is the number
\* of handles tried when the last one was made
RECURSIVE AggregateAll(_, _, _, _)
AggregateAll(acc, reads, rq, nprobes) ==
    IF reads = <<>> \/ acc.status # "ok" THEN [result |-> acc, nprobes |-> nprobes]
    ELSE AggregateAll(Aggregated(acc, Head(reads).tmp_result, rq), Tail(reads), rq,
                      Head(reads).nprobes)

\* data_dict[key][indices_of_unique_values] of remove_duplicates raises
\* IndexError when an array is shorter than the time array the indices
\* were taken from
IndexErrorIn(data_dict) ==
    /\ DOMAIN data_dict # {}
    /\ \E key \in DOMAIN data_dict :
          \E i \in Range(UniqueIndices(data_dict[TimeName(Prefix(FirstKey(data_dict)))])) :
              i >= Len(data_dict[key])

\* what a merge returns: the record set, deduplicated or not, or the
\* exception; merged keeps the record set as it was aggregated
Returned(aggregated, st) ==
    [result |-> IF st.raised # "" THEN Raised(st.raised)
                ELSE IF aggregated.result.status # "ok" THEN aggregated.result
                ELSE IF st.dedup /\ IndexErrorIn(aggregated.result.data)
                THEN Raised("IndexError")
                ELSE [status |-> "ok",
                      data |-> IF st.dedup
                               THEN remove_duplicates(aggregated.result.data)
                               ELSE aggregated.result.data,
                      merged |-> aggregated.result.data],
     probes |-> IF st.raised = "" /\ aggregated.result.status # "ok"
                THEN SubSeq(st.probes, 1, aggregated.nprobes)
                ELSE st.probes]

\* reads is what the helper has aggregated into result, start_stamp the
\* stamp it returns with it
\* self.nc.time_coverage_start of a file without the attribute raises
\* AttributeError in get_coverage_start, which the helper does not catch
merge_archive_helper(cdip_nc, rq, utcoffset) ==
    IF ~HasCoverage(cdip_nc)
    THEN [reads |-> <<Raised("AttributeError")>>, start_stamp |-> rq.start_stamp,
          read |-> FALSE]
    ELSE
    LET file_start_stamp == datetime_to_timestamp(get_coverage_start(cdip_nc), utcoffset)
        file_end_stamp == datetime_to_timestamp(get_coverage_end(cdip_nc), utcoffset)
        file_timespan == Timespan(file_start_stamp, file_end_stamp)
        request_timespan == Timespan(rq.start_stamp, rq.end_stamp)
    IN  [reads |-> IF overlap(request_timespan, file_timespan)
                   THEN <<Archive_get_request(cdip_nc, rq)>> ELSE <<>>,
         start_stamp |-> file_start_stamp,
         read |-> overlap(request_timespan, file_timespan)]

merge_xyz_helper(cdip_nc, request_timespan, rq) ==
    IF ~cdip_nc.xyz.has \/ get_xyz_timestamp(cdip_nc, 0).none
    THEN [reads |-> <<>>, start_stamp |-> rq.start_stamp, read |-> FALSE]
    ELSE LET start_stamp == get_xyz_timestamp(cdip_nc, 0).value
             end_stamp == get_xyz_timestamp(cdip_nc, cdip_nc.xyz.len - 1).value
             file_timespan == Timespan(start_stamp, end_stamp)
         IN  [reads |-> IF overlap(request_timespan, file_timespan)
                        THEN <<Archive_get_request(cdip_nc, rq)>> ELSE <<>>,
              start_stamp |-> start_stamp,
              read |-> overlap(request_timespan, file_timespan)]

\* an archive handle that opened, and what the helper did with it
TriedArchive(st, dep, helped) ==
    Tried(st, Probe("archive", dep, TRUE, helped.read), helped.reads, 1)

\* the loop over the archive deployments of __merge_xyz_request, from dep on
RECURSIVE merge_xyz_archives(_, _, _, _, _)
merge_xyz_archives(self, rq, request_timespan, dep, st) ==
    IF dep >= max_deployments \/ Raising(st) THEN st
    ELSE IF ~Archive(self, dep).nc
    THEN Tried(st, Probe("archive", dep, FALSE, FALSE), <<>>, 0)
    ELSE IF merge_xyz_helper(Archive(self, dep), request_timespan, rq).start_stamp
                > rq.end_stamp
    THEN TriedArchive(st, dep,
                      merge_xyz_helper(Archive(self, dep), request_timespan, rq))
    ELSE merge_xyz_archives(self, rq, request_timespan, dep + 1,
             TriedArchive(st, dep,
                          merge_xyz_helper(Archive(self, dep), request_timespan, rq)))

\* __merge_xyz_request once the realtime file is open and the helper has
\* run on it; num_files_used counts the archives (arch_file_used)
merge_xyz_realtime(self, rq, request_timespan, helped) ==
    IF rq.start_stamp > helped.start_stamp
    THEN Tried(Merge(EmptyDict, <<>>, 0, <<>>),
               Probe("realtimexy", 0, TRUE, helped.read), helped.reads, 0)
    ELSE WithDedup(
             merge_xyz_archives(self, rq, request_timespan, 1,
                 Tried(Merge(EmptyDict, <<>>, 0, <<>>),
                       Probe("realtimexy", 0, TRUE, helped.read), helped.reads, 0)),
             0)

merge_xyz_request(self, rq) ==
    IF ~self.realtimexy.nc
    THEN \* start_stamp is read at line 422 and was never assigned
         [Merge(EmptyDict, <<>>, 0, <<Probe("realtimexy", 0, FALSE, FALSE)>>)
             EXCEPT !.raised = "UnboundLocalError"]
    ELSE merge_xyz_realtime(self, rq, Timespan(rq.start_stamp, rq.end_stamp),
             merge_xyz_helper(self.realtimexy, Timespan(rq.start_stamp, rq.end_stamp),
                              rq))

\* sorted(self.meta.active_datasets.items(), key=operator.itemgetter(1));
\* the mutant sorts by name
SortedDatasetsByName == <<"moored", "offsite", "predeploy", "recovered">>

SortedDatasets == <<"predeploy", "moored", "offsite", "recovered">>

\* the loop over the datasets of __merge_active_request
RECURSIVE merge_active_datasets(_, _, _, _, _)
merge_active_datasets(self, rq, nc_class_type, datasets, st) ==
    IF datasets = <<>> \/ Raising(st) THEN st
    ELSE LET ds == Head(datasets)
             active == IF nc_class_type = "xyz" THEN self.active[ds].xy
                       ELSE self.active[ds].rt
             fallback == ds = "moored" /\ ~active.nc
             a == IF fallback THEN Archive(self, self.deploy_num) ELSE active
             source == IF fallback THEN "archive" ELSE ds
         IN  merge_active_datasets(self, rq, nc_class_type, Tail(datasets),
                 IF a.nc
                 THEN Tried(st, Probe(source, self.deploy_num, TRUE, TRUE),
                            <<IF nc_class_type = "xyz" \/ fallback
                              THEN Archive_get_request(a, rq)
                              ELSE Ok(get_request(a, rq))>>, 1)
                 ELSE Tried(st, Probe(source, self.deploy_num, FALSE, FALSE), <<>>, 0))

merge_active_request(self, rq, nc_class_type) ==
    WithDedup(merge_active_datasets(self, rq, nc_class_type, SortedDatasets,
                                    Merge(EmptyDict, <<>>, 0, <<>>)), 1)

\* the mutant: the historic file is read for every quality set
historic_used_any_pub_set(h, rq) ==
    h.nc /\ At(h.time, Len(h.time) - 1) >= rq.start_stamp

\* lines 497-501
historic_used(h, rq) ==
    h.nc /\ At(h.time, Len(h.time) - 1) >= rq.start_stamp /\ rq.pub_set = "public"

\* line 485
realtime_used(r, rq) == r.nc /\ At(r.time, 0) <= rq.end_stamp

\* the loop over the archive deployments of __merge_request, from dep on
RECURSIVE merge_request_archives(_, _, _, _)
merge_request_archives(self, rq, dep, st) ==
    IF dep >= max_deployments \/ Raising(st) THEN st
    ELSE IF ~Archive(self, dep).nc
    THEN Tried(st, Probe("archive", dep, FALSE, FALSE), <<>>, 0)
    ELSE IF merge_archive_helper(Archive(self, dep), rq, self.utcoffset).start_stamp
                > rq.end_stamp
    THEN TriedArchive(st, dep,
                      merge_archive_helper(Archive(self, dep), rq, self.utcoffset))
    ELSE merge_request_archives(self, rq, dep + 1,
             TriedArchive(st, dep,
                          merge_archive_helper(Archive(self, dep), rq, self.utcoffset)))

\* lines 481-510: result = self.__aggregate_dicts(ht, rt)
merge_request_files(r, h, rq) ==
    Merge(IF historic_used(h, rq) THEN get_request(h, rq) ELSE EmptyDict,
          <<Reading(Ok(IF realtime_used(r, rq) THEN get_request(r, rq) ELSE EmptyDict),
                    2)>>,
          (IF realtime_used(r, rq) THEN 1 ELSE 0)
              + (IF historic_used(h, rq) THEN 1 ELSE 0),
          <<Probe("realtime", 0, r.nc, realtime_used(r, rq)),
            Probe("historic", 0, h.nc, historic_used(h, rq))>>)

merge_request(self, rq) ==
    WithDedup(IF rq.pub_set # "public"
              THEN merge_request_archives(self, rq, 1,
                       merge_request_files(self.realtime, self.historic, rq))
              ELSE merge_request_files(self.realtime, self.historic, rq),
              1)

\* CDIPnc.set_request_info and set_timespan, as get_series calls them; key
\* is the spectral variable next(iter(svars)) picks
set_request_info(start, end, vrs, pub_set, apply_mask, utcoffset) ==
    [op |-> "get_series", vrs |-> vrs, start_dt |-> start, end_dt |-> end,
     start_stamp |-> datetime_to_timestamp(start, utcoffset),
     end_stamp |-> datetime_to_timestamp(end, utcoffset),
     pub_set |-> pub_set, apply_mask |-> apply_mask, force_64bands |-> FALSE,
     key |-> "none"]

\* the dispatch of get_series, lines 288-295; deploy_num 0 is python's None
merge_of_request(self, rq) ==
    IF Prefix(rq.vrs[1]) = "xyz"
    THEN IF self.deploy_num = 0 THEN merge_xyz_request(self, rq)
         ELSE merge_active_request(self, rq, "xyz")
    ELSE IF self.deploy_num = 0 THEN merge_request(self, rq)
         ELSE merge_active_request(self, rq, "rt")

\* the aggregations and the return of the merge st
aggregated_merge(st, rq) ==
    Returned(AggregateAll(Ok(st.dict1), st.reads, rq, 0), st)

get_series(self, rq) == aggregated_merge(merge_of_request(self, rq), rq)

----------------------------------------------------------------------------
(* The stations get_series is called on.  A station without a deployment   *)
(* number has a historic file, a realtime file, a realtime displacement    *)
(* file and the archive files of its deployments; a StnData object made    *)
(* with a deployment number has the files of that deployment's states.     *)

\* the timestamps whose records are flagged 4 (not public) outside historic
NonPubTimes == {2}

WaveFlags(times) ==
    [i \in 1..Len(times) |-> IF times[i] \in NonPubTimes THEN 4 ELSE 1]

PublicFlags(times) == [i \in 1..Len(times) |-> 1]

Coverage(times) == <<times[1], times[Len(times)]>>

\* the timestamps a, a + 1, ..., b
Upto(a, b) == [i \in 1..(b - a + 1) |-> a + i - 1]

HistoricFiles ==
    {ClosedFile} \cup
    {NcFile(<<"historic", 0>>, Upto(1, h), PublicFlags(Upto(1, h)),
            Coverage(Upto(1, h)), NoXyz) : h \in {1, MaxTime - 1}}

RealtimeFiles ==
    {ClosedFile} \cup
    {NcFile(<<"realtime", 0>>, t, WaveFlags(t), Coverage(t), NoXyz) :
        t \in {Upto(2, MaxTime), <<MaxTime>>, <<1, MaxTime>>}}

\* the archive of deployment dep holds the record of time dep, and the
\* next one when long
ArchiveFile(dep, long, xyz) ==
    LET times == IF long THEN <<dep, dep + 1>> ELSE <<dep>>
    IN  NcFile(<<"archive", dep>>, times, WaveFlags(times), Coverage(times), xyz)

\* stations with wave data only
WaveStations ==
    {[deploy_num |-> 0, utcoffset |-> z, historic |-> h, realtime |-> r,
      realtimexy |-> ClosedFile,
      archive |-> [dep \in 1..max_deployments |->
                      IF dep \in P THEN ArchiveFile(dep, long, NoXyz) ELSE ClosedFile]] :
        z \in UtcOffsets, h \in HistoricFiles, r \in RealtimeFiles,
        P \in SUBSET (1..max_deployments), long \in BOOLEAN}

XyzDelays == {MaskedDelay, FilterDelay(0), FilterDelay(1)}

\* a realtime displacement file of three samples
RealtimeXYFiles(d) ==
    {ClosedFile} \cup
    {NcFile(<<"realtimexy", 0>>, <<>>, <<>>, <<t0, t0 + 2>>, XyzData(t0, d, 3)) :
        t0 \in {0, 1, MaxTime}}

ArchiveKinds == {"closed", "wave", "xyz"}

\* stations whose archives hold two displacement samples, or none
XyzStations ==
    UNION {{[deploy_num |-> 0, utcoffset |-> 0, historic |-> ClosedFile,
             realtime |-> ClosedFile, realtimexy |-> x,
             archive |-> [dep \in 1..max_deployments |->
                             CASE kinds[dep] = "closed" -> ClosedFile
                               [] kinds[dep] = "wave" -> ArchiveFile(dep, FALSE, NoXyz)
                               [] OTHER -> ArchiveFile(dep, FALSE, XyzData(dep, d, 2))]] :
               x \in RealtimeXYFiles(d), kinds \in [1..max_deployments -> ArchiveKinds]} :
           d \in XyzDelays}

\* CDIPnc.active_datasets: the p-number of every lifecycle state
active_datasets == [predeploy |-> 0, moored |-> 1, offsite |-> 2, recovered |-> 3]

StateKinds == {"closed", "short", "full"}

\* the rt and the xy file of a lifecycle state; later states hold earlier
\* records when short
ActiveFiles(ds, kind) ==
    LET times == IF kind = "full" THEN Upto(1, MaxTime)
                 ELSE <<Max(1, MaxTime - active_datasets[ds])>>
    IN  IF kind = "closed" THEN [rt |-> ClosedFile, xy |-> ClosedFile]
        ELSE [rt |-> NcFile(<<ds, 1>>, times, WaveFlags(times), Coverage(times), NoXyz),
              xy |-> NcFile(<<ds, 1>>, <<>>, <<>>, Coverage(times),
                            XyzData(times[1], FilterDelay(0), Len(times) + 1))]

\* StnData objects made with deploy_num = 1
Deployments ==
    {[deploy_num |-> 1, utcoffset |-> 0,
      active |-> [ds \in DOMAIN active_datasets |-> ActiveFiles(ds, kinds[ds])],
      archive |-> <<ar>>] :
        kinds \in [DOMAIN active_datasets -> StateKinds],
        ar \in {ClosedFile, ArchiveFile(1, TRUE, XyzData(1, FilterDelay(0), 3))}}

Init ==
    /\ world \in WaveStations \cup XyzStations \cup Deployments
    /\ req = NoReq
    /\ result = NoResult
    /\ probes = <<>>
    /\ pc = "station"

SeriesVars == {<<"waveHs">>, <<"xyzZDisplacement">>}

\* what the caller receives, and the handles that were tried for it
Return(returned) ==
    /\ result' = returned.result
    /\ probes' = returned.probes

\* get_series(start, end, vrs, pub_set, apply_mask); a displacement request
\* is made as get_xyz makes it
GetSeries ==
    /\ pc = "station"
    /\ \E vrs \in SeriesVars, w \in Windows, pub_set \in PubSets, apply_mask \in BOOLEAN :
          /\ Prefix(vrs[1]) = "xyz" => (pub_set = "public" /\ apply_mask)
          /\ req' = set_request_info(w[1], w[2], vrs, pub_set, apply_mask,
                                     world.utcoffset)
          /\ Return(get_series(world, req'))
    /\ pc' = "series"
    /\ UNCHANGED world

Next == GetSeries

Spec == Init /\ [][Next]_vars

\* the governing time variable of a request
TimeOf(rq) == TimeName(Prefix(rq.vrs[1]))

\* the values of the requested variable in a record set
ValuesOf(dict, rq) == IF rq.vrs[1] \in DOMAIN dict THEN dict[rq.vrs[1]] ELSE <<>>

\* C1: whenever get_series returns a record set (default, xyz or explicit
\* deployment path) the governing time array of that record set is strictly
\* increasing, whichever files contributed and in whatever order they were
\* read; the time array of every file is strictly increasing.
C1_TimeStrictlyIncreasing ==
    (pc = "series" /\ result.status = "ok" /\ TimeOf(req) \in DOMAIN result.data)
        => StrictlyIncreasing(result.data[TimeOf(req)])

\* a displacement request without deployment has aggregated the realtime
\* file and an archive into a time array that was not in time order
C1_Witness ==
    /\ pc = "series"
    /\ world.deploy_num = 0
    /\ Prefix(req.vrs[1]) = "xyz"
    /\ result.status = "ok"
    /\ "xyzTime" \in DOMAIN result.merged
    /\ ~StrictlyIncreasing(result.merged["xyzTime"])
    /\ Len(result.data["xyzTime"]) >= 2
    /\ \E i \in DOMAIN probes : probes[i].source = "archive" /\ probes[i].read

\* the place of a file in the order Historic, Realtime, Archive 1, 2, ...
SourceRank(id) ==
    CASE id[1] = "historic" -> 0
      [] id[1] = "realtime" -> 1
      [] OTHER -> 1 + id[2]

ArchiveProbes(p) == SelectSeq(p, LAMBDA x : x.source = "archive")

\* datetime_to_timestamp(get_coverage_start()) of the archive of deployment dep
CoverageStartStamp(self, dep) ==
    datetime_to_timestamp(get_coverage_start(Archive(self, dep)), self.utcoffset)

\* C4: in a default request (no deployment, wave variables) the aggregated
\* record set holds the historic records, then the realtime records, then
\* those of the archives in increasing deployment number; historic records
\* appear only for the public set; archives are probed exactly when the set
\* is not public, as deployments 1, 2, ... without a gap; no archive is
\* probed after one that failed to open or whose coverage start is later
\* than the request end, the scan goes on until one of these or the last
\* deployment below max_deployments, and never probes more than
\* max_deployments archives.
C4_DefaultOrder ==
    (pc = "series" /\ world.deploy_num = 0 /\ Prefix(req.vrs[1]) # "xyz") =>
        LET ap == ArchiveProbes(probes)
            merged == ValuesOf(result.merged, req)
        IN  /\ result.status = "ok"
            /\ \A i \in 1..(Len(merged) - 1) :
                   SourceRank(merged[i][1]) <= SourceRank(merged[i + 1][1])
            /\ (\E i \in DOMAIN merged : merged[i][1][1] = "historic")
                   => req.pub_set = "public"
            /\ (ap # <<>>) = (req.pub_set # "public")
            /\ \A i \in DOMAIN ap : ap[i].deployment = i
            /\ Len(ap) <= max_deployments
            /\ \A i \in 1..(Len(ap) - 1) :
                   ap[i].opened /\ CoverageStartStamp(world, i) <= req.end_stamp
            /\ (/\ ap # <<>>
                /\ ap[Len(ap)].opened
                /\ CoverageStartStamp(world, Len(ap)) <= req.end_stamp)
                   => Len(ap) = max_deployments - 1

\* a request for all records has aggregated the realtime file and two
\* archives, and stopped at the ceiling with a further archive on disk
C4_Witness ==
    /\ pc = "series"
    /\ world.deploy_num = 0
    /\ req.vrs = <<"waveHs">>
    /\ req.pub_set = "all"
    /\ result.status = "ok"
    /\ {SourceRank(v[1]) : v \in Range(ValuesOf(result.merged, req))} = {1, 2, 3}
    /\ Len(ArchiveProbes(probes)) = max_deployments - 1
    /\ Archive(world, max_deployments).nc

\* the file of a lifecycle state a request with deployment opens
StateFile(self, rq, ds) ==
    IF Prefix(rq.vrs[1]) = "xyz" THEN self.active[ds].xy ELSE self.active[ds].rt

\* the file read in the place of a lifecycle state
UsedFile(self, rq, ds) ==
    IF ds = "moored" /\ ~StateFile(self, rq, ds).nc
    THEN Archive(self, self.deploy_num) ELSE StateFile(self, rq, ds)

\* what a read of the file returns of the requested variable
ReadOf(f, rq) ==
    IF Prefix(rq.vrs[1]) = "xyz" THEN ValuesOf(Archive_get_request(f, rq).data, rq)
    ELSE ValuesOf(get_request(f, rq), rq)

LifecycleOrder == <<"predeploy", "moored", "offsite", "recovered">>

\* C5: a request with a deployment tries predeploy, moored, offsite and
\* recovered in this order, with the archive of the deployment in the place
\* of a moored file that does not open, for wave and for displacement
\* requests; every file that opens is read, whatever its coverage, and the
\* aggregated record set holds what these reads return, in this order, and
\* nothing of a state that did not open.
C5_LifecycleOrder ==
    (pc = "series" /\ world.deploy_num # 0 /\ result.status = "ok") =>
        LET merged == ValuesOf(result.merged, req)
            At_(k) == UsedFile(world, req, LifecycleOrder[k])
            Place(id) == CHOOSE k \in DOMAIN LifecycleOrder :
                             At_(k).nc /\ At_(k).id = id
        IN  /\ Len(probes) = Len(LifecycleOrder)
            /\ \A k \in DOMAIN LifecycleOrder :
                  /\ probes[k].source =
                        (IF LifecycleOrder[k] = "moored"
                            /\ ~StateFile(world, req, "moored").nc
                         THEN "archive" ELSE LifecycleOrder[k])
                  /\ probes[k].opened = At_(k).nc
                  /\ probes[k].read = At_(k).nc
                  /\ At_(k).nc =>
                        SelectSeq(merged, LAMBDA v : v[1] = At_(k).id)
                            = ReadOf(At_(k), req)
            /\ \A i \in DOMAIN merged :
                   \E k \in DOMAIN LifecycleOrder : At_(k).nc /\ At_(k).id = merged[i][1]
            /\ \A i \in 1..(Len(merged) - 1) :
                   Place(merged[i][1]) <= Place(merged[i + 1][1])

\* a displacement request has read the predeploy file, whose samples lie
\* outside the window, the archive in the place of the moored file, and a
\* later state
C5_Witness ==
    /\ pc = "series"
    /\ world.deploy_num # 0
    /\ Prefix(req.vrs[1]) = "xyz"
    /\ result.status = "ok"
    /\ probes[1].read
    /\ ReadOf(UsedFile(world, req, "predeploy"), req) = <<>>
    /\ probes[2].source = "archive" /\ probes[2].read
    /\ ReadOf(UsedFile(world, req, "moored"), req) # <<>>
    /\ probes[3].read
    /\ ReadOf(UsedFile(world, req, "offsite"), req) # <<>>

\* the timestamps of a file's records within the window of a request
InWindow(f, rq) == {t \in Range(f.time) : rq.start_stamp <= t /\ t <= rq.end_stamp}

\* C6: a default waveHs request for the set all whose window holds records
\* of the historic and of the realtime file returns as many records as there
\* are distinct timestamps in the window in the two files together.
C6_UnionOfBothSources ==
    (/\ pc = "series"
     /\ world.deploy_num = 0
     /\ req.vrs = <<"waveHs">>
     /\ req.pub_set = "all"
     /\ world.historic.nc /\ world.realtime.nc
     /\ InWindow(world.historic, req) # {}
     /\ InWindow(world.realtime, req) # {})
        => /\ result.status = "ok"
           /\ "waveTime" \in DOMAIN result.data
           /\ Len(result.data["waveTime"]) =
                  Cardinality(InWindow(world.historic, req)
                                  \cup InWindow(world.realtime, req))

----------------------------------------------------------------------------
(* cdippy.utils.utils: the interval functions get_target_timespan calls.   *)
(* The module is not among the sources; the functions are written from     *)
(* sections 4.2 and 4.4 of the specification.                              *)

\* the largest number of records asked around a target time
MaxTarget == 2

\* r_closest_idx = None
NoIndex == -1

\* datetime.fromtimestamp(ts): the local time of the stamp
timestamp_to_datetime(ts, utcoffset) == ts + utcoffset

\* of the two neighbours the one closer to the target; the specification
\* leaves open which one when they are as close: tie says which
get_closest_index(x_idx, y_idx, stamps, target, tie) ==
    LET dx == Abs(At(stamps, x_idx) - target)
        dy == Abs(At(stamps, y_idx) - target)
    IN  IF dx < dy THEN x_idx
        ELSE IF dy < dx THEN y_idx
        ELSE IF tie = "left" THEN x_idx ELSE y_idx

Interval(start, end, overflow) ==
    [none |-> FALSE, start |-> start, end |-> end, overflow |-> overflow]

\* (None, None, None)
NoInterval == [none |-> TRUE]

\* the stamps of idx and of the record n to its right (left when n < 0),
\* clamped to the array; overflow counts the records beyond the array
get_interval(stamps, idx, n) ==
    LET last_idx == Len(stamps) - 1
    IN  IF n >= 0
        THEN Interval(At(stamps, idx), At(stamps, Min(idx + n, last_idx)),
                      Max(0, idx + n - last_idx))
        ELSE Interval(At(stamps, Max(idx + n, 0)), At(stamps, idx),
                      Min(0, idx + n))

\* the span covering two adjacent partial windows
combine_intervals(left, right) ==
    [none |-> FALSE, start |-> left.start, end |-> right.end]

----------------------------------------------------------------------------
(* StnData.get_target_timespan                                             *)

\* lines 578-594
closest_in_realtime(r_stamps, target_timestamp, tie) ==
    LET r_last_idx == Len(r_stamps) - 1
        i_b == Min(bisect_left(r_stamps, target_timestamp, 0, Len(r_stamps)),
                   r_last_idx)
    IN  IF i_b = r_last_idx \/ At(r_stamps, i_b) = target_timestamp THEN i_b
        ELSE IF i_b > 0
        THEN get_closest_index(i_b - 1, i_b, r_stamps, target_timestamp, tie)
        ELSE NoIndex

\* lines 600-621: h_closest_idx, and r_closest_idx as the search leaves it
closest_in_historic(h_stamps, r_ok, r_stamps, r_closest_idx, target_timestamp, tie) ==
    LET h_last_idx == Len(h_stamps) - 1
        i_b == Min(bisect_left(h_stamps, target_timestamp, 0, Len(h_stamps)),
                   h_last_idx)
    IN  IF (i_b <= h_last_idx /\ At(h_stamps, i_b) = target_timestamp) \/ i_b = 0
        THEN [h |-> i_b, r |-> r_closest_idx]
        ELSE IF i_b >= h_last_idx
        THEN IF r_ok
             THEN IF Abs(At(h_stamps, h_last_idx) - target_timestamp)
                        < Abs(At(r_stamps, 0) - target_timestamp)
                  THEN [h |-> i_b, r |-> r_closest_idx]
                  ELSE [h |-> NoIndex, r |-> 0]
             ELSE [h |-> i_b, r |-> r_closest_idx]
        ELSE [h |-> get_closest_index(i_b - 1, i_b, h_stamps, target_timestamp, tie),
              r |-> r_closest_idx]

\* lines 625-651: the intervals, once the closest index is known
target_intervals(h_ok, r_ok, h_stamps, r_stamps, closest, num_target_records) ==
    LET h_last_idx == Len(h_stamps) - 1
    IN  IF closest.r # NoIndex
        THEN LET r_interval == get_interval(r_stamps, closest.r, num_target_records)
             IN  IF r_interval.overflow < 0 /\ h_ok
                 THEN combine_intervals(
                          get_interval(h_stamps, h_last_idx,
                                       num_target_records + closest.r + 1),
                          r_interval)
                 ELSE r_interval
        ELSE IF closest.h # NoIndex
        THEN LET h_interval == get_interval(h_stamps, closest.h, num_target_records)
             IN  IF h_interval.overflow > 0 /\ r_ok
                 THEN combine_intervals(
                          h_interval,
                          get_interval(r_stamps, 0,
                                       num_target_records + closest.h - h_last_idx - 1))
                 ELSE h_interval
        ELSE NoInterval

\* self.realtime.get_var(time_var)[:] of a variable the file does not hold
\* subscripts None
get_target_timespan(self, target_timestamp, num_target_records, time_var, tie) ==
    LET r_ok == self.realtime.nc
        h_ok == self.historic.nc
        r_stamps == IF r_ok THEN self.realtime.time ELSE <<>>
        h_stamps == IF h_ok THEN self.historic.time ELSE <<>>
        r_closest_idx == IF r_ok THEN closest_in_realtime(r_stamps, target_timestamp, tie)
                         ELSE NoIndex
        closest == IF h_ok /\ (r_closest_idx = NoIndex \/ r_closest_idx = 0)
                   THEN closest_in_historic(h_stamps, r_ok, r_stamps, r_closest_idx,
                                            target_timestamp, tie)
                   ELSE [h |-> NoIndex, r |-> r_closest_idx]
    IN  IF r_ok /\ ~HasVar(self.realtime, time_var) THEN Raised("TypeError")
        ELSE IF h_ok /\ (r_closest_idx = NoIndex \/ r_closest_idx = 0)
                /\ ~HasVar(self.historic, time_var)
        THEN Raised("TypeError")
        ELSE Ok(target_intervals(h_ok, r_ok, h_stamps, r_stamps, closest,
                                 num_target_records))

----------------------------------------------------------------------------
(* get_series with a target time: start given, end None                    *)

\* stations whose historic file ends before MaxTime and whose realtime file
\* starts after the first historic record
TargetStations ==
    {[deploy_num |-> 0, utcoffset |-> z, historic |-> h, realtime |-> r,
      realtimexy |-> ClosedFile, archive |-> <<>>] :
        z \in UtcOffsets,
        h \in {ClosedFile} \cup
              {NcFile(<<"historic", 0>>, SortedSeq(S), PublicFlags(SortedSeq(S)),
                      Coverage(SortedSeq(S)), NoXyz) :
                  S \in SUBSET (1..(MaxTime - 1)) \ {{}}},
        r \in {ClosedFile} \cup
              {NcFile(<<"realtime", 0>>, SortedSeq(S), WaveFlags(SortedSeq(S)),
                      Coverage(SortedSeq(S)), NoXyz) :
                  S \in SUBSET (2..(MaxTime + 1)) \ {{}}}}

InitTarget ==
    /\ world \in TargetStations
    /\ req = NoReq
    /\ result = NoResult
    /\ probes = <<>>
    /\ pc = "station"

\* what the target request was, next to the request get_series made of it
TargetInfo(start, target_records, tie, ts_I) ==
    [target_timestamp |-> start, target_records |-> target_records, tie |-> tie,
     ts_I |-> ts_I]

\* lines 262-272 found no window: return None
ReturnNone(vrs, pub_set, apply_mask, info) ==
    /\ req' = info @@ [op |-> "get_series", vrs |-> vrs, pub_set |-> pub_set,
                       apply_mask |-> apply_mask]
    /\ result' = ReturnedNone
    /\ probes' = <<>>

\* get_target_timespan raised
RaiseTarget(vrs, pub_set, apply_mask, info) ==
    /\ req' = info @@ [op |-> "get_series", vrs |-> vrs, pub_set |-> pub_set,
                       apply_mask |-> apply_mask]
    /\ result' = info.ts_I
    /\ probes' = <<>>

\* lines 269-270 and 277-295: the window becomes the request
SeriesOfTarget(vrs, pub_set, apply_mask, info) ==
    /\ req' = info @@ set_request_info(
                  timestamp_to_datetime(info.ts_I.data.start, world.utcoffset),
                  timestamp_to_datetime(info.ts_I.data.end, world.utcoffset),
                  vrs, pub_set, apply_mask, world.utcoffset)
    /\ Return(get_series(world, req'))

TargetSeries(vrs, pub_set, apply_mask, info) ==
    IF info.ts_I.status # "ok" THEN RaiseTarget(vrs, pub_set, apply_mask, info)
    ELSE IF info.ts_I.data.none THEN ReturnNone(vrs, pub_set, apply_mask, info)
    ELSE SeriesOfTarget(vrs, pub_set, apply_mask, info)

\* get_series(start, None, vrs, pub_set, apply_mask, target_records)
GetSeriesTarget ==
    /\ pc = "station"
    /\ \E vrs \in SeriesVars, start \in 0..(MaxTime + 1),
          target_records \in (0 - MaxTarget)..MaxTarget,
          pub_set \in PubSets, apply_mask \in BOOLEAN, tie \in {"left", "right"} :
          TargetSeries(vrs, pub_set, apply_mask,
              TargetInfo(datetime_to_timestamp(start, world.utcoffset), target_records,
                         tie,
                         get_target_timespan(world,
                             datetime_to_timestamp(start, world.utcoffset),
                             target_records, TimeName(Prefix(vrs[1])), tie)))
    /\ pc' = "series"
    /\ UNCHANGED world

NextTarget == GetSeriesTarget

SpecTarget == InitTarget /\ [][NextTarget]_vars

\* the distance of the target to the closest record of a file
Distance(f, target) ==
    LET ds == {Abs(f.time[i] - target) : i \in DOMAIN f.time}
    IN  CHOOSE d \in ds : \A e \in ds : d <= e

\* the records of f beyond its record closest to the target, on the side
\* the count asks for
RecordsBeyond(f, target, n) ==
    LET near == CHOOSE i \in DOMAIN f.time : Abs(f.time[i] - target) = Distance(f, target)
    IN  IF n > 0 THEN Len(f.time) - near ELSE near - 1

\* a target request the historic and the realtime file answer together:
\* both open, every historic record older than every realtime record, all
\* of them public and asked as public; the file `from` alone holds the
\* record nearest the target and too few records beyond it, and the file
\* `into` holds the rest
SpansInto(from, into, target, n) ==
    /\ world.historic.nc /\ world.realtime.nc
    /\ \A i \in DOMAIN world.historic.time, j \in DOMAIN world.realtime.time :
           world.historic.time[i] < world.realtime.time[j]
    /\ \A j \in DOMAIN world.realtime.time : world.realtime.time[j] \notin NonPubTimes
    /\ req.pub_set = "public"
    /\ Distance(from, target) < Distance(into, target)
    /\ \A i, j \in DOMAIN from.time :
           (Abs(from.time[i] - target) = Distance(from, target)
            /\ Abs(from.time[j] - target) = Distance(from, target)) => i = j
    /\ RecordsBeyond(from, target, n) < Abs(n)
    /\ Len(into.time) >= Abs(n) - RecordsBeyond(from, target, n)

\* C11: a target request with count N whose nearest record lies in a file
\* with fewer than N records on the requested side is extended into the
\* adjacent file and returns exactly N + 1 records in time order
C11_TargetRecordCount ==
    (/\ pc = "series"
     /\ "target_records" \in DOMAIN req
     /\ req.vrs = <<"waveHs">>
     /\ \/ req.target_records > 0
           /\ SpansInto(world.historic, world.realtime, req.target_timestamp,
                        req.target_records)
        \/ req.target_records < 0
           /\ SpansInto(world.realtime, world.historic, req.target_timestamp,
                        req.target_records))
    => /\ result.status = "ok"
       /\ "waveTime" \in DOMAIN result.data
       /\ Len(result.data["waveTime"]) = Abs(req.target_records) + 1
       /\ StrictlyIncreasing(result.data["waveTime"])

\* the realtime or the historic file holds a record on the time variable
HasRecords(self, time_var) ==
    \E f \in {self.realtime, self.historic} :
        f.nc /\ HasVar(f, time_var) /\ f.time # <<>>

\* C12: a target request never raises; get_target_timespan returns the
\* sentinel, and get_series None, exactly when neither the realtime nor the
\* historic file holds a record on the time variable
C12_SentinelOnlyWithoutData ==
    (pc = "series" /\ "ts_I" \in DOMAIN req)
    => /\ req.ts_I.status = "ok"
       /\ req.ts_I.data.none <=> ~HasRecords(world, TimeOf(req))
       /\ (result = ReturnedNone) <=> req.ts_I.data.none

\* C13: in every merge path a source that cannot be opened is skipped
\* without raising; a displacement request whose realtime file does not
\* open still goes on to the archive deployments
C13_UnopenableSourceSkipped ==
    (pc = "series" /\ \E i \in DOMAIN probes : ~probes[i].opened)
    => /\ result.status = "ok"
       /\ (Prefix(req.vrs[1]) = "xyz" /\ world.deploy_num = 0 /\ ~world.realtimexy.nc)
          => \E i \in DOMAIN probes : probes[i].source = "archive"

----------------------------------------------------------------------------
(* Successive requests on one StnData object.  set_request_info leaves the *)
(* quality set and the mask switch of a request in self.pub_set and        *)
(* self.apply_mask; get_series reads them for the arguments left at None.  *)

\* StnData.pub_set = None, CDIPnc.apply_mask = True
NewObject(station) == station @@ [pub_set |-> "None", apply_mask |-> TRUE]

\* CDIPnc.get_pub_set, the dashed names of pub_set_map left out
get_pub_set(name) == IF name \in PubSets THEN name ELSE "public"

\* lines 277-278 and cdipnc.py 155
request_pub_set(self, pub_set) ==
    get_pub_set(IF pub_set = "None" THEN self.pub_set ELSE pub_set)

\* lines 280-281 and cdipnc.py 156-157
request_apply_mask(self, apply_mask) ==
    IF apply_mask = "None" THEN self.apply_mask ELSE apply_mask = "True"

parameter_vars == <<"waveHs", "waveTp", "waveDp", "waveTa">>

StnData_spectrum_vars ==
    <<"waveEnergyDensity", "waveMeanDirection", "waveA1Value", "waveB1Value",
      "waveA2Value", "waveB2Value", "waveCheckFactor">>

\* the request get_series makes of its arguments on the object self
series_request(self, call, w, vrs, pub_set, apply_mask, force_64bands) ==
    [call |-> call, args |-> [pub_set |-> pub_set, apply_mask |-> apply_mask]]
    @@ [set_request_info(w[1], w[2], vrs, request_pub_set(self, pub_set),
                         request_apply_mask(self, apply_mask), self.utcoffset)
           EXCEPT !.force_64bands = force_64bands]

SessionStations ==
    {[deploy_num |-> 0, utcoffset |-> 0, historic |-> h, realtime |-> r,
      realtimexy |-> ClosedFile,
      archive |-> [dep \in 1..max_deployments |->
                      IF dep = 1 THEN ArchiveFile(1, TRUE, NoXyz) ELSE ClosedFile]] :
        h \in {ClosedFile,
               NcFile(<<"historic", 0>>, <<1>>, <<1>>, <<1, 1>>, NoXyz)},
        r \in {NcFile(<<"realtime", 0>>, t, WaveFlags(t), Coverage(t), NoXyz) :
                  t \in {Upto(2, MaxTime), <<1, MaxTime>>}}}

SessionWindows == {<<0, MaxTime + 1>>, <<2, MaxTime>>}

InitSession ==
    /\ world \in {NewObject(station) : station \in SessionStations}
    /\ req = NoReq
    /\ result = NoResult
    /\ probes = <<>>
    /\ pc = "station"

\* self.set_request_info(start, end, vrs, pub_set, apply_mask) and the merge
Served(rq) ==
    /\ req' = rq
    /\ world' = [world EXCEPT !.pub_set = rq.pub_set, !.apply_mask = rq.apply_mask]
    /\ Return(get_series(world, rq))
    /\ pc' = "series"

\* get_series(start, end, vrs, pub_set, apply_mask), arguments left out or not
SessionSeries ==
    /\ pc \in {"station", "series"}
    /\ \E w \in SessionWindows, pub_set \in PubSets \cup {"None"},
          apply_mask \in {"None", "True", "False"} :
           Served(series_request(world, "get_series", w, <<"waveHs">>, pub_set,
                                 apply_mask, FALSE))

\* get_parameters(start, end, pub_set, apply_mask)
SessionParameters ==
    /\ pc \in {"station", "series"}
    /\ \E w \in SessionWindows, pub_set \in PubSets, apply_mask \in {"True", "False"} :
           Served(series_request(world, "get_parameters", w, parameter_vars, pub_set,
                                 apply_mask, FALSE))

\* get_spectra(start, end, pub_set, apply_mask, 0, force_64bands)
SessionSpectra ==
    /\ pc \in {"station", "series"}
    /\ \E w \in SessionWindows, pub_set \in PubSets, apply_mask \in {"True", "False"},
          force_64bands \in BOOLEAN :
           Served(series_request(world, "get_spectra", w, StnData_spectrum_vars, pub_set,
                                 apply_mask, force_64bands))

NextSession == SessionSeries \/ SessionParameters \/ SessionSpectra

SpecSession == InitSession /\ [][NextSession]_vars

\* the object as it was made, before any request
AsMade(self) == [self EXCEPT !.pub_set = "None", !.apply_mask = TRUE]

\* C14: whatever requests came before, a get_series call returns what the
\* same call returns on the object as it was made
C14_NoCrossRequestState ==
    (pc = "series" /\ req.call = "get_series")
    => result = get_series(AsMade(world),
                           series_request(AsMade(world), "get_series",
                                          <<req.start_dt, req.end_dt>>, req.vrs,
                                          req.args.pub_set, req.args.apply_mask,
                                          req.force_64bands)).result

----------------------------------------------------------------------------
(* Timespan.overlap on two spans, each way round                           *)

\* the spans over the instants 0..MaxTime, start <= end or not
Timespans == {Timespan(t[1], t[2]) : t \in (0..MaxTime) \X (0..MaxTime)}

InitOverlap ==
    /\ world \in [a : Timespans, b : Timespans]
    /\ req = NoReq
    /\ result = NoResult
    /\ probes = <<>>
    /\ pc = "spans"

\* a.overlap(b), b.overlap(a), a.overlap(a)
Overlap ==
    /\ pc = "spans"
    /\ req' = [op |-> "overlap"]
    /\ result' = [ab |-> overlap(world.a, world.b), ba |-> overlap(world.b, world.a),
                  aa |-> overlap(world.a, world.a)]
    /\ pc' = "overlap"
    /\ UNCHANGED <<world, probes>>

NextOverlap == Overlap

SpecOverlap == InitOverlap /\ [][NextOverlap]_vars

\* C15: a.overlap(b) is true exactly when a.start <= b.end and
\* a.end >= b.start; it is symmetric, a span with start <= end overlaps
\* itself, and spans that touch at one instant overlap
C15_OverlapInclusive ==
    pc = "overlap"
    => /\ result.ab <=> (world.a.start_dt <= world.b.end_dt
                         /\ world.a.end_dt >= world.b.start_dt)
       /\ result.ab <=> result.ba
       /\ world.a.start_dt <= world.a.end_dt => result.aa
       /\ (/\ world.a.start_dt <= world.a.end_dt
           /\ world.b.start_dt <= world.b.end_dt
           /\ world.a.end_dt = world.b.start_dt) => result.ab

\* two spans of positive length that share one instant only
C15_Witness ==
    /\ pc = "overlap"
    /\ world.a.start_dt < world.a.end_dt
    /\ world.a.end_dt = world.b.start_dt
    /\ world.b.start_dt < world.b.end_dt
    /\ result.ab /\ result.ba

----------------------------------------------------------------------------
(* Archive.get_request for a displacement variable, on one file            *)

\* displacement files of up to MaxLen samples
XyzFiles ==
    {NcFile(<<"archive", 1>>, <<>>, <<>>, <<t0, t0 + len - 1>>, XyzData(t0, d, len)) :
        t0 \in 0..MaxTime, d \in XyzDelays, len \in 1..MaxLen}

InitXyz ==
    /\ world \in XyzFiles
    /\ req = NoReq
    /\ result = NoResult
    /\ probes = <<>>
    /\ pc = "file"

\* set_request_info(start, end, ["xyzZDisplacement"]); get_request()
ReadXyz ==
    /\ pc = "file"
    /\ \E w \in Windows :
          /\ req' = Request(<<"xyzZDisplacement">>, w, "public", TRUE)
          /\ result' = Archive_get_request(world, req')
    /\ pc' = "read"
    /\ UNCHANGED <<world, probes>>

NextXyz == ReadXyz

SpecXyz == InitXyz /\ [][NextXyz]_vars

\* the pseudo-time of sample i (from 0) of a file
PseudoTime(f, i) == f.xyz.xyzStartTime - Delay(f) + i \div f.xyz.xyzSampleRate

\* the indices, in order, of the samples whose pseudo-time is in the window
SamplesInWindow(f, rq) ==
    SortedSeq({i \in 0..(f.xyz.len - 1) :
                  rq.start_stamp <= PseudoTime(f, i) /\ PseudoTime(f, i) <= rq.end_stamp})

\* C16: a displacement read returns exactly the samples whose pseudo-time
\* lies in [start, end], each with its pseudo-time in xyzTime, and the empty
\* record set when no sample of the file falls in the window
C16_SamplesInWindow ==
    pc = "read"
    => LET idx == SamplesInWindow(world, req)
       IN  /\ result.status = "ok"
           /\ IF idx = <<>> THEN result.data = EmptyDict
              ELSE result.data =
                     [k \in {"xyzTime", "xyzZDisplacement"} |->
                         IF k = "xyzTime"
                         THEN [j \in DOMAIN idx |-> PseudoTime(world, idx[j])]
                         ELSE [j \in DOMAIN idx |-> At(XyzVar(world, k), idx[j])]]

----------------------------------------------------------------------------
(* get_series with variables of two time dimensions.  The files hold as    *)
(* many sea surface temperature records as wave records, on times of their *)
(* own; a value names the file and the index of the record on sstTime.     *)

WithSst(f) ==
    IF f.nc
    THEN [f EXCEPT !.vars = ("sstSeaSurfaceTemperature" :>
                                [i \in 1..Len(f.time) |-> <<f.id, "sstTime", i - 1>>])
                            @@ @]
    ELSE f

MixedStations ==
    {[station EXCEPT !.historic = WithSst(@), !.realtime = WithSst(@),
                     !.archive = [dep \in DOMAIN @ |-> WithSst(@[dep])]] :
        station \in SessionStations}

MixedVars == <<"waveHs", "sstSeaSurfaceTemperature">>

InitMixed ==
    /\ world \in MixedStations
    /\ req = NoReq
    /\ result = NoResult
    /\ probes = <<>>
    /\ pc = "station"

\* get_series(start, end, ["waveHs", "sstSeaSurfaceTemperature"], pub_set,
\* apply_mask)
GetSeriesMixed ==
    /\ pc = "station"
    /\ \E w \in Windows, pub_set \in PubSets, apply_mask \in BOOLEAN :
          /\ req' = set_request_info(w[1], w[2], MixedVars, pub_set, apply_mask,
                                     world.utcoffset)
          /\ Return(get_series(world, req'))
    /\ pc' = "series"
    /\ UNCHANGED world

NextMixed == GetSeriesMixed

SpecMixed == InitMixed /\ [][NextMixed]_vars

\* C17: a request whose variables mix time-dimension prefixes is rejected
\* with an error before any source is opened or read, and returns no
\* record set
C17_MixedPrefixesRejected ==
    (pc = "series"
     /\ \E i, j \in DOMAIN req.vrs : Prefix(req.vrs[i]) # Prefix(req.vrs[j]))
    => result.status = "error" /\ probes = <<>>

----------------------------------------------------------------------------
\* C18: a redistribution to a layout name that names no layout fails with
\* an error; it does not complete silently, and what redist_specArr stores
\* for it in the spectra collection is not a record without spectral data
C18_UnknownLayoutFails ==
    (pc = "redistributed" /\ req.op = "redistribute_sp"
     /\ req.specInstClass \notin Range(FixedLayouts))
    => result.status = "error" /\ Stored(result) # None

----------------------------------------------------------------------------
\* C19: for a timestamp that occurs more than once remove_duplicates keeps
\* the first occurrence in concatenation order, and it selects every other
\* variable with the indices of the time array: row k of the result is the
\* first input row that holds the k-th timestamp
C19_FirstOccurrenceWins ==
    (pc = "dedup" /\ DOMAIN world # {})
    => /\ Len(result.data["waveHs"]) = Len(result.data["waveTime"])
       /\ \A k \in DOMAIN result.data["waveTime"] :
             LET row == result.data["waveHs"][k]
             IN  /\ row \in DOMAIN world["waveTime"]
                 /\ world["waveTime"][row] = result.data["waveTime"][k]
                 /\ \A j \in 1..(row - 1) : world["waveTime"][j] # world["waveTime"][row]

\* a timestamp held by an earlier and a later row, out of time order with
\* the rows between them: the earlier row is kept and the later one dropped
C19_Witness ==
    /\ pc = "dedup"
    /\ DOMAIN world # {}
    /\ \E i, j \in DOMAIN world["waveTime"] :
          /\ i + 1 < j
          /\ world["waveTime"][i] = world["waveTime"][j]
          /\ world["waveTime"][i + 1] < world["waveTime"][i]
          /\ i \in Range(result.data["waveHs"])
          /\ j \notin Range(result.data["waveHs"])

----------------------------------------------------------------------------
\* __merge_xyz_request without the return at lines 422-423: the archive
\* deployments are scanned whatever the realtime file starts with
merge_xyz_scanned(self, rq, helped) ==
    WithDedup(
        merge_xyz_archives(self, rq, Timespan(rq.start_stamp, rq.end_stamp), 1,
            Tried(Merge(EmptyDict, <<>>, 0, <<>>),
                  Probe("realtimexy", 0, TRUE, helped.read), helped.reads, 0)),
        0)

----------------------------------------------------------------------------
(* get_xyz on stations whose archives may hold samples the realtime file   *)
(* does not                                                                 *)

\* a realtime displacement file of two samples or more
ShortRealtimeXY(d) ==
    {NcFile(<<"realtimexy", 0>>, <<>>, <<>>, <<t0, t0 + len - 1>>, XyzData(t0, d, len)) :
        t0 \in 1..(MaxTime - 1), len \in 2..3}

\* the archive of a deployment: closed, or two samples from some instant on
ShortArchives(dep, d) ==
    {ClosedFile} \cup
    {ArchiveFile(dep, FALSE, XyzData(t0, d, 2)) : t0 \in 1..MaxTime}

ShortStations ==
    UNION {{[deploy_num |-> 0, utcoffset |-> 0, historic |-> ClosedFile,
             realtime |-> ClosedFile, realtimexy |-> x, archive |-> ar] :
               x \in ShortRealtimeXY(d),
               ar \in {a \in [1..max_deployments -> UNION {ShortArchives(dep, d) :
                                                            dep \in 1..max_deployments}] :
                          \A dep \in 1..max_deployments : a[dep] \in ShortArchives(dep, d)}} :
           d \in XyzDelays}

InitShort ==
    /\ world \in ShortStations
    /\ req = NoReq
    /\ result = NoResult
    /\ probes = <<>>
    /\ pc = "station"

\* get_xyz(start, end, pub_set): get_series with the displacement variables
GetXyz ==
    /\ pc = "station"
    /\ \E w \in Windows :
          /\ req' = set_request_info(w[1], w[2], <<"xyzZDisplacement">>, "public",
                                     TRUE, world.utcoffset)
          /\ Return(get_series(world, req'))
    /\ pc' = "series"
    /\ UNCHANGED world

NextShort == GetXyz

SpecShort == InitShort /\ [][NextShort]_vars

\* the realtime displacement file is open and the request starts after its
\* first sample: lines 422-423 return without a look at the archives
ShortCircuit ==
    /\ pc = "series"
    /\ Prefix(req.vrs[1]) = "xyz"
    /\ world.deploy_num = 0
    /\ world.realtimexy.nc
    /\ req.start_stamp
         > merge_xyz_helper(world.realtimexy,
                            Timespan(req.start_stamp, req.end_stamp), req).start_stamp

\* C20: the result of a displacement request that takes the short-circuit
\* is the result the request has when the archives are scanned and merged
C20_ShortCircuitSameResult ==
    ShortCircuit
    => result.data =
         aggregated_merge(
             merge_xyz_scanned(world, req,
                 merge_xyz_helper(world.realtimexy,
                                  Timespan(req.start_stamp, req.end_stamp), req)),
             req).result.data

----------------------------------------------------------------------------
(* get_series for two wave variables, on stations whose files do not all   *)
(* hold the second one                                                      *)

\* the file with a peak period next to every wave height
WithTp(f) ==
    IF f.nc
    THEN [f EXCEPT !.vars = ("waveTp" :> [i \in 1..Len(f.time) |-> <<f.id, "waveTp", i - 1>>])
                            @@ @]
    ELSE f

\* every file of a wave station holds waveTp, or does not
PartialStations ==
    {[station EXCEPT !.historic = IF has[1] THEN WithTp(@) ELSE @,
                     !.realtime = IF has[2] THEN WithTp(@) ELSE @,
                     !.archive = [dep \in DOMAIN @ |->
                                     IF has[3] THEN WithTp(@[dep]) ELSE @[dep]]] :
        station \in {w \in WaveStations : w.utcoffset = 0},
        has \in [1..3 -> BOOLEAN]}

PartialVars == <<"waveHs", "waveTp">>

InitPartial ==
    /\ world \in PartialStations
    /\ req = NoReq
    /\ result = NoResult
    /\ probes = <<>>
    /\ pc = "station"

\* get_series(start, end, ["waveHs", "waveTp"], pub_set, apply_mask)
GetSeriesPartial ==
    /\ pc = "station"
    /\ \E w \in Windows, pub_set \in PubSets, apply_mask \in BOOLEAN :
          /\ req' = set_request_info(w[1], w[2], PartialVars, pub_set, apply_mask,
                                     world.utcoffset)
          /\ Return(get_series(world, req'))
    /\ pc' = "series"
    /\ UNCHANGED world

NextPartial == GetSeriesPartial

SpecPartial == InitPartial /\ [][NextPartial]_vars

\* C21: after the aggregations and the deduplication of one get_series
\* request every variable array of the record set returned has the length
\* of the time array, also when a requested variable is in only some of
\* the files read
C21_EqualLengths ==
    pc = "series"
    => /\ result.status = "ok"
       /\ \A key \in DOMAIN result.data :
             Len(result.data[key]) = Len(result.data[TimeOf(req)])

----------------------------------------------------------------------------
\* the records of an array, in order
RecordsOf(key, a) == IF key \in spectrum_vars THEN a.rows ELSE a

\* the result of the aggregation is, key by key, dict1's array followed by
\* dict2's, or the array of the one record set that has the key
PlainConcatenation ==
    /\ result.status = "ok"
    /\ DOMAIN result.data = DOMAIN world.dict1 \cup DOMAIN world.dict2
    /\ \A key \in DOMAIN result.data :
          RecordsOf(key, result.data[key]) =
              (IF key \in DOMAIN world.dict1 THEN RecordsOf(key, world.dict1[key])
               ELSE <<>>)
              \o (IF key \in DOMAIN world.dict2 THEN RecordsOf(key, world.dict2[key])
                  ELSE <<>>)

NoRedistribution ==
    \/ BandCounts(world.dict1) \cup BandCounts(world.dict2) \subseteq {64}
    \/ /\ BandCounts(world.dict1) \cup BandCounts(world.dict2) = {100}
       /\ ~world.force_64bands

----------------------------------------------------------------------------
(* get_target_timespan on a station with one source: the realtime file or  *)
(* the historic file, with up to three records                             *)

\* the sorted time arrays of a source
SourceStamps ==
    {SortedSeq(S) : S \in {S \in SUBSET (1..(MaxTime + 2)) : Cardinality(S) \in 1..3}}

WaveFile(id, times) ==
    NcFile(<<id, 0>>, times, PublicFlags(times), Coverage(times), NoXyz)

OneSourceStations ==
    {[deploy_num |-> 0, utcoffset |-> 0,
      historic |-> IF which = "historic" THEN WaveFile(which, t) ELSE ClosedFile,
      realtime |-> IF which = "realtime" THEN WaveFile(which, t) ELSE ClosedFile,
      realtimexy |-> ClosedFile, archive |-> <<>>] :
        which \in {"historic", "realtime"}, t \in SourceStamps}

InitNearest ==
    /\ world \in OneSourceStations
    /\ req = NoReq
    /\ result = NoResult
    /\ probes = <<>>
    /\ pc = "station"

\* get_target_timespan(target_timestamp, num_target_records, "waveTime")
GetTargetTimespan ==
    /\ pc = "station"
    /\ \E target_timestamp \in 0..(MaxTime + 3),
          num_target_records \in (0 - MaxTarget)..MaxTarget, tie \in {"left", "right"} :
          /\ req' = [op |-> "get_target_timespan",
                     target_timestamp |-> target_timestamp,
                     num_target_records |-> num_target_records, tie |-> tie]
          /\ result' = get_target_timespan(world, target_timestamp, num_target_records,
                                           "waveTime", tie)
    /\ pc' = "target"
    /\ UNCHANGED <<world, probes>>

NextNearest == GetTargetTimespan

SpecNearest == InitNearest /\ [][NextNearest]_vars

\* the stamps of the one source of the station
StampsOf(self) == IF self.realtime.nc THEN self.realtime.time ELSE self.historic.time

\* the stamp of the index the search picked: the interval starts on it
\* when the records are counted to the right, and ends on it otherwise
AnchorOf(interval, num_target_records) ==
    IF num_target_records >= 0 THEN interval.start ELSE interval.end

\* C23: within one source with sorted times the index get_target_timespan
\* picks for a target is the index of a stored time closest to the target,
\* also when the target lies between the last two stored times
C23_NearestIndex ==
    (pc = "target" /\ result.status = "ok" /\ ~result.data.none)
    => \A i \in DOMAIN StampsOf(world) :
          Abs(AnchorOf(result.data, req.num_target_records) - req.target_timestamp)
              <= Abs(StampsOf(world)[i] - req.target_timestamp)

----------------------------------------------------------------------------
(* get_target_timespan on a station whose historic file ends before its    *)
(* realtime file starts, with targets in the gap too                       *)

GapStations ==
    {[deploy_num |-> 0, utcoffset |-> 0,
      historic |-> WaveFile("historic", SortedSeq(H)),
      realtime |-> WaveFile("realtime", SortedSeq(R)),
      realtimexy |-> ClosedFile, archive |-> <<>>] :
        H \in SUBSET (1..(MaxTime - 1)) \ {{}},
        R \in SUBSET ((MaxTime + 2)..(MaxTime + 3)) \ {{}}}

InitGap ==
    /\ world \in GapStations
    /\ req = NoReq
    /\ result = NoResult
    /\ probes = <<>>
    /\ pc = "station"

SpecGap == InitGap /\ [][NextNearest]_vars

\* the last record of the historic file and the first of the realtime file
LastHistoric(self) == At(self.historic.time, Len(self.historic.time) - 1)
FirstRealtime(self) == At(self.realtime.time, 0)

\* the target lies after the last historic record and before the first
\* realtime record
InGap ==
    /\ pc = "target"
    /\ LastHistoric(world) < req.target_timestamp
    /\ req.target_timestamp < FirstRealtime(world)

\* C24: for a target between the two sources the window is anchored on the
\* last historic record when that is closer to the target, and on the
\* first realtime record when that is closer
C24_CloserBoundary ==
    InGap
    => /\ result.status = "ok"
       /\ ~result.data.none
       /\ Abs(LastHistoric(world) - req.target_timestamp)
              < Abs(FirstRealtime(world) - req.target_timestamp)
          => AnchorOf(result.data, req.num_target_records) = LastHistoric(world)
       /\ Abs(FirstRealtime(world) - req.target_timestamp)
              < Abs(LastHistoric(world) - req.target_timestamp)
          => AnchorOf(result.data, req.num_target_records) = FirstRealtime(world)

----------------------------------------------------------------------------
\* the 0-based indices of the records of f with start <= time <= end
WindowIndices(f, rq) ==
    {i \in 0..(Len(f.time) - 1) :
        rq.start_stamp <= At(f.time, i) /\ At(f.time, i) <= rq.end_stamp}

\* C25: on a file with a sorted time array the indices of a window are the
\* first index with time >= start and the first index with time > end, the
\* slice between them holds exactly the records with start <= time <= end,
\* and the read slices the time array and every variable with it
C25_WindowSlice ==
    (pc = "read" /\ ~req.apply_mask)
    => LET idx == get_indices(world.time, req.start_stamp, req.end_stamp)
       IN  /\ idx[1] = Cardinality({i \in DOMAIN world.time :
                                       world.time[i] < req.start_stamp})
           /\ idx[2] = Cardinality({i \in DOMAIN world.time :
                                       world.time[i] <= req.end_stamp})
           /\ WindowIndices(world, req) = idx[1]..(idx[2] - 1)
           /\ \A k \in DOMAIN result.data :
                 result.data[k] =
                     IF k = TimeName(world.fam)
                     THEN Slice(world.time, idx[1], idx[2])
                     ELSE Slice(world.vars[k], idx[1], idx[2])
           /\ IF idx[1] = idx[2] THEN result.data = EmptyDict
              ELSE DOMAIN result.data = Range(req.vrs) \cup {TimeName(world.fam)}

\* a read of two variables whose window starts on a record and ends on a
\* record, with a record of the file outside the window
C25_Witness ==
    /\ pc = "read"
    /\ ~req.apply_mask
    /\ Len(req.vrs) = 2
    /\ req.start_stamp \in Range(world.time)
    /\ req.end_stamp \in Range(world.time)
    /\ req.start_stamp < req.end_stamp
    /\ Len(world.time) > Cardinality(WindowIndices(world, req))
    /\ result.data["waveTime"] = <<req.start_stamp, req.end_stamp>>

----------------------------------------------------------------------------
(* The read of a single file and the aggregation of two record sets, the   *)
(* two steps of a merge helper, each on its own inputs                     *)

InitEmpty ==
    /\ \/ world \in ReadFiles /\ pc = "init"
       \/ world \in Aggregations /\ pc = "idle"
    /\ req = NoReq
    /\ result = NoResult
    /\ probes = <<>>

NextEmpty == Read \/ Aggregate

SpecEmpty == InitEmpty /\ [][NextEmpty]_vars

\* a read of a file that has no record in the window
EmptyWindow == pc = "read" /\ WindowIndices(world, req) = {}

\* an aggregation whose second record set is the empty one
EmptyAggregated == pc = "aggregated" /\ world.dict2 = EmptyDict

ForcedRedistribution == world.force_64bands /\ 100 \in BandCounts(world.dict1)

----------------------------------------------------------------------------
(* get_series on stations with an archive file that lacks the global       *)
(* coverage attributes                                                      *)

\* the file without time_coverage_start and time_coverage_end
WithoutCoverage(f) ==
    [k \in DOMAIN f \ {"time_coverage_start", "time_coverage_end"} |-> f[k]]

CoverageStations ==
    {[station EXCEPT !.archive = [dep \in DOMAIN @ |->
                                     IF dep = d /\ @[dep].nc THEN WithoutCoverage(@[dep])
                                     ELSE @[dep]]] :
        station \in {w \in WaveStations : w.utcoffset = 0}, d \in 0..max_deployments}

InitCoverage ==
    /\ world \in CoverageStations
    /\ req = NoReq
    /\ result = NoResult
    /\ probes = <<>>
    /\ pc = "station"

SpecCoverage == InitCoverage /\ [][Next]_vars

\* the merge has opened the archive of a deployment that lacks the
\* coverage attributes
OpenedWithoutCoverage(dep) ==
    /\ pc = "series"
    /\ Prefix(req.vrs[1]) = "wave"
    /\ dep \in DOMAIN world.archive
    /\ world.archive[dep].nc
    /\ ~HasCoverage(world.archive[dep])
    /\ \E i \in DOMAIN probes :
          probes[i].source = "archive" /\ probes[i].deployment = dep /\ probes[i].opened

\* C27: an archive that opens without the coverage attributes is taken
\* not to overlap the request: no record is read from it, no error is
\* raised, and the next deployment is tried
C27_NoCoverageNoOverlap ==
    \A dep \in 1..max_deployments :
        OpenedWithoutCoverage(dep)
        => /\ result.status = "ok"
           /\ \A i \in DOMAIN probes :
                 (probes[i].source = "archive" /\ probes[i].deployment = dep)
                 => ~probes[i].read
           /\ dep + 1 < max_deployments
              => \E i \in DOMAIN probes :
                    probes[i].source = "archive" /\ probes[i].deployment = dep + 1

----------------------------------------------------------------------------
\* the spectrum with the energy densities of self and other directions and
\* coefficients: those of the cycles moved on by shift bands, or no
\* direction at all
Redirected(self, shift, defined) ==
    [self EXCEPT
        !.dMean = [j \in DOMAIN @ |->
                      IF defined THEN Cycle(DirectionCycle, j + shift) ELSE Undefined],
        !.a1 = [j \in DOMAIN @ |-> Cycle(CoeffCycle, j + shift)],
        !.b1 = [j \in DOMAIN @ |-> Cycle(CoeffCycle, j + shift + 1)],
        !.a2 = [j \in DOMAIN @ |-> Cycle(CoeffCycle, j + shift + 2)],
        !.b2 = [j \in DOMAIN @ |-> Cycle(CoeffCycle, j + shift)]]

\* C28: the energy densities redistribute_sp gives the target bands depend
\* on the source energy densities and the two layouts only: a source with
\* the same energy densities and other mean directions (the undefined
\* sentinel -1 among them) and other coefficients gets the same ones
C28_EnergyIgnoresDirection ==
    Redistributed_ok
    => \A defined \in BOOLEAN :
          redistribute_sp(Redirected(world, 1, defined),
                          req.specInstClass).data.ener_dens
              = result.data.ener_dens

\* a target band took energy from a source band without direction and has
\* none itself, where the same energy with directions gives it one
C28_Witness ==
    /\ Redistributed_ok
    /\ \E i \in DOMAIN result.data.ener_dens :
          /\ result.data.ener_dens[i].n > 0
          /\ ~result.data.dMean[i].def
          /\ redistribute_sp(Redirected(world, 1, TRUE),
                             req.specInstClass).data.dMean[i].def

----------------------------------------------------------------------------
\* the source bands that gave energy to target band i: they hold energy
\* and share frequencies with it
Givers(source, target, i) ==
    {j \in DOMAIN source.ener_dens :
        /\ source.ener_dens[j].n # 0
        /\ OverlapWidth(freq_cutoffs(Layout(target))[i],
                        freq_cutoffs(Layout(source))[j]) > 0}

InUnitRange(c) == ~RatLess([n |-> 1, d |-> 1], c) /\ ~RatLess(c, [n |-> -1, d |-> 1])

\* C29: after redistribute_sp a target band with a mean direction has its
\* four coefficients in [-1, 1], has energy, and took energy from source
\* bands with a direction only; a band that took energy from a source band
\* without direction, or took none, has no direction
C29_DirectionValidity ==
    Redistributed_ok
    => \A i \in DOMAIN result.data.dMean :
          /\ result.data.dMean[i].def
             => /\ InUnitRange(result.data.a1[i]) /\ InUnitRange(result.data.b1[i])
                /\ InUnitRange(result.data.a2[i]) /\ InUnitRange(result.data.b2[i])
                /\ result.data.ener_dens[i].n > 0
                /\ \A j \in Givers(world, result.data, i) : world.dMean[j].def
          /\ (\/ Givers(world, result.data, i) = {}
              \/ \E j \in Givers(world, result.data, i) : ~world.dMean[j].def)
             => ~result.data.dMean[i].def

\* one target band has a direction, another took energy from a band
\* without direction and has none
C29_Witness ==
    /\ Redistributed_ok
    /\ \E i \in DOMAIN result.data.dMean :
          result.data.dMean[i].def /\ Givers(world, result.data, i) # {}
    /\ \E i \in DOMAIN result.data.dMean :
          /\ ~result.data.dMean[i].def
          /\ result.data.ener_dens[i].n > 0
          /\ \E j \in Givers(world, result.data, i) : ~world.dMean[j].def

----------------------------------------------------------------------------
(* Redistributions of a spectrum with check factors whose bands hold a     *)
(* high energy density, as in heavy seas                                   *)

\* the energy density of the bands that hold energy, in m^2/Hz
HighDensity == [n |-> 1000, d |-> 1]

HighSpectra ==
    {[sp EXCEPT !.ener_dens = [j \in DOMAIN @ |-> RatMul(@[j], HighDensity)]] :
        sp \in {SourceSpectrum(cls, k, MaxRun, TRUE) :
                   cls \in {"Spectrum_64band", "Spectrum_9band"},
                   k \in 1..9}}

InitHigh ==
    /\ world \in HighSpectra
    /\ req = NoReq
    /\ result = NoResult
    /\ probes = <<>>
    /\ pc = "idle"

SpecHigh == InitHigh /\ [][NextRedist]_vars

\* C30: after redistribute_sp on a spectrum with check factors the check
\* factor of every target band is at most 2.55, with or without a mean
\* direction of the band
C30_CheckAtMostCeiling ==
    (Redistributed_ok /\ world.hasCheck)
    => \A i \in DOMAIN result.data.check :
          ~RatLess([n |-> 51, d |-> 20], result.data.check[i])

====
